---------------------------- MODULE Spec2Model ----------------------------
(***************************************************************************)
(* Model of fom-tools-lib (src/fom-tools-lib/src/lib.rs): the conversion   *)
(* of an xmltree element tree into the typed object model, and parse().    *)
(*                                                                         *)
(* Text is a sequence of one-character strings, so that trimming, case     *)
(* mapping and scalar parsing are computed and not assumed.  A conversion  *)
(* either returns a value, Ok(v), or panics, Panic(m): the converters are  *)
(* From impls, whose only failure channel is panic!/unwrap.                *)
(***************************************************************************)
EXTENDS Naturals, Sequences, FiniteSets, TLC

VARIABLES
    pc,      \* control position of the run
    input,   \* parse run: the stream handed to parse(); unit run: unused
    root,    \* parse run: the element tree Element::parse returned
    fom,     \* parse run: the ObjectModelType fields converted so far
    stdout,  \* lines written by println!
    ret,     \* what the call returned (or the panic that unwound it)
    arg,     \* unit run: the element a converter is applied to
    call     \* unit run: the converter or extractor that was applied

vars == <<pc, input, root, fom, stdout, ret, arg, call>>

(***************************************************************************)
(* Values                                                                  *)
(***************************************************************************)
None == [some |-> FALSE]
Some(x) == [some |-> TRUE, v |-> x]

Ok(x) == [ok |-> TRUE, val |-> x]
Panic(m) == [ok |-> FALSE, msg |-> m]

\* panic!("No '<path>' ...") of a required field that is missing
Missing(path) == Panic([kind |-> "missing", path |-> path])
\* panic!("Unknown ...: {}", text) of a vocabulary converter
Unknown(what, text) == Panic([kind |-> "unknown", what |-> what, text |-> text])
\* .parse().unwrap() on an Err
Unwrap(text) == Panic([kind |-> "unwrap", text |-> text])

(***************************************************************************)
(* Characters and strings                                                  *)
(***************************************************************************)
Whitespace == {" ", "\t", "\n", "\r"}
Digits == <<"0", "1", "2", "3", "4", "5", "6", "7", "8", "9">>

Min(S) == CHOOSE x \in S : \A y \in S : x <= y
Max(S) == CHOOSE x \in S : \A y \in S : x >= y

\* str::trim_start in the place of str::trim
trim_start(s) ==
    LET keep == {i \in DOMAIN s : s[i] \notin Whitespace}
    IN  IF keep = {} THEN <<>> ELSE SubSeq(s, Min(keep), Len(s))

\* str::trim: the slice between the first and the last non-whitespace char
trim(s) ==
    LET keep == {i \in DOMAIN s : s[i] \notin Whitespace}
    IN  IF keep = {} THEN <<>> ELSE SubSeq(s, Min(keep), Max(keep))

Lower == <<"a", "b", "c", "d", "e", "f", "g", "h", "i", "j", "k", "l", "m",
           "n", "o", "p", "q", "r", "s", "t", "u", "v", "w", "x", "y", "z">>
Upper == <<"A", "B", "C", "D", "E", "F", "G", "H", "I", "J", "K", "L", "M",
           "N", "O", "P", "Q", "R", "S", "T", "U", "V", "W", "X", "Y", "Z">>

\* char::to_uppercase on the characters the model uses
upper_char(c) ==
    IF \E i \in DOMAIN Lower : Lower[i] = c
    THEN Upper[CHOOSE i \in DOMAIN Lower : Lower[i] = c]
    ELSE c

\* str::to_uppercase
to_uppercase(s) == [i \in DOMAIN s |-> upper_char(s[i])]

digit_value(c) == (CHOOSE i \in DOMAIN Digits : Digits[i] = c) - 1
is_digit(c) == \E i \in DOMAIN Digits : Digits[i] = c

RECURSIVE decimal_value(_)
decimal_value(s) ==
    IF s = <<>> THEN 0
    ELSE 10 * decimal_value(SubSeq(s, 1, Len(s) - 1)) + digit_value(s[Len(s)])

\* An integer parse that wraps around the type's width instead of failing
parse_unsigned_wrapping(s, max) ==
    LET body == IF s # <<>> /\ s[1] = "+" THEN Tail(s) ELSE s
    IN  IF body = <<>> \/ \E i \in DOMAIN body : ~is_digit(body[i])
        THEN [ok |-> FALSE, val |-> 0]
        ELSE [ok |-> TRUE, val |-> decimal_value(body) % (max + 1)]

\* <u8/u16 as FromStr>::from_str: an optional '+', then one or more ASCII
\* digits, the value no greater than the type's maximum; anything else is Err
parse_unsigned(s, max) ==
    LET body == IF s # <<>> /\ s[1] = "+" THEN Tail(s) ELSE s
    IN  IF body = <<>> \/ \E i \in DOMAIN body : ~is_digit(body[i])
        THEN [ok |-> FALSE, val |-> 0]
        ELSE IF decimal_value(body) > max
             THEN [ok |-> FALSE, val |-> 0]
             ELSE [ok |-> TRUE, val |-> decimal_value(body)]

U8_MAX == 255
U16_MAX == 65535

\* <bool as FromStr>::from_str: exactly "true" or "false"
parse_bool(s) ==
    IF s = <<"t", "r", "u", "e">> THEN [ok |-> TRUE, val |-> TRUE]
    ELSE IF s = <<"f", "a", "l", "s", "e">> THEN [ok |-> TRUE, val |-> FALSE]
    ELSE [ok |-> FALSE, val |-> FALSE]

\* Result::unwrap of a FromStr result: the value, or a panic
unwrap(r, text) == IF r.ok THEN Ok(r.val) ELSE Unwrap(text)

(***************************************************************************)
(* The element tree (xmltree::Element, xmltree::XMLNode)                   *)
(***************************************************************************)
NoAttributes == [k \in {} |-> <<>>]

\* XMLNode::Text(t)
TextNode(t) ==
    [kind |-> "Text", name |-> "", attributes |-> NoAttributes,
     children |-> <<>>, text |-> t]

\* XMLNode::Element(Element { name, attributes, children })
Element(n, a, c) ==
    [kind |-> "Element", name |-> n, attributes |-> a, children |-> c,
     text |-> <<>>]

\* The positions of the child elements named n, in document order
child_positions(e, n) ==
    {i \in DOMAIN e.children :
        e.children[i].kind = "Element" /\ e.children[i].name = n}

\* Element::get_child: the first child element of that name
has_child(e, n) == child_positions(e, n) # {}
get_child(e, n) == e.children[Min(child_positions(e, n))]

RECURSIVE concat(_)
concat(ss) == IF ss = <<>> THEN <<>> ELSE Head(ss) \o concat(Tail(ss))

\* Element::get_text: None without a text child, else the text children
\* concatenated
get_text(e) ==
    LET texts == SelectSeq(e.children, LAMBDA c : c.kind = "Text")
    IN  IF texts = <<>> THEN None
        ELSE Some(concat([i \in DOMAIN texts |-> texts[i].text]))

\* The text of an element as xmltree holds it, whitespace kept
get_element_text_untrimmed(e) ==
    IF get_text(e).some THEN get_text(e).v ELSE <<>>

(***************************************************************************)
(* Accessors and field extractors                                          *)
(***************************************************************************)
get_element_text(e) ==
    IF get_text(e).some THEN trim(get_text(e).v) ELSE <<>>

get_text_of_child_element(r, child_element_name) ==
    IF has_child(r, child_element_name)
    THEN Some(get_element_text(get_child(r, child_element_name)))
    ELSE None

get_text_of_attribute(element, attribute_name) ==
    IF attribute_name \in DOMAIN element.attributes
    THEN Some(element.attributes[attribute_name])
    ELSE None

get_text_of_child_element_or_panic(r, child_element_name, panic_message) ==
    IF get_text_of_child_element(r, child_element_name).some
    THEN Ok(get_text_of_child_element(r, child_element_name).v)
    ELSE Missing(panic_message)

get_text_of_attribute_or_panic(element, attribute_name, panic_message) ==
    IF get_text_of_attribute(element, attribute_name).some
    THEN Ok(get_text_of_attribute(element, attribute_name).v)
    ELSE Missing(panic_message)

\* T::from(x): the From implementation of the type T the caller names, T being
\* written as the type's name
RECURSIVE T_from(_, _)

\* Option<T> of a conversion that may panic: the panic passes through
SomeOf(r) == IF r.ok THEN Ok(Some(r.val)) ELSE r

get_child_element_as_type(T, r, child_element_name) ==
    IF has_child(r, child_element_name)
    THEN SomeOf(T_from(T, get_child(r, child_element_name)))
    ELSE Ok(None)

\* An attribute conversion that trims the value as get_element_text does
get_attribute_as_type_trimmed(T, element, attribute_name) ==
    IF attribute_name \in DOMAIN element.attributes
    THEN SomeOf(T_from(T, trim(element.attributes[attribute_name])))
    ELSE Ok(None)

get_attribute_as_type(T, element, attribute_name) ==
    IF attribute_name \in DOMAIN element.attributes
    THEN SomeOf(T_from(T, element.attributes[attribute_name]))
    ELSE Ok(None)

get_child_element_as_type_or_panic(T, r, child_element_name, panic_message) ==
    LET got == get_child_element_as_type(T, r, child_element_name)
    IN  IF ~got.ok THEN got
        ELSE IF got.val.some THEN Ok(got.val.v)
        ELSE Missing(panic_message)

get_attribute_as_type_or_panic(T, element, attribute_name, panic_message) ==
    LET got == get_attribute_as_type(T, element, attribute_name)
    IN  IF ~got.ok THEN got
        ELSE IF got.val.some THEN Ok(got.val.v)
        ELSE Missing(panic_message)

\* The child elements named n, in document order (the filter of lines 117-122)
named_children(r, n) ==
    SelectSeq(r.children, LAMBDA c : c.kind = "Element" /\ c.name = n)

get_text_of_child_elements(r, child_element_name) ==
    LET es == named_children(r, child_element_name)
    IN  [i \in DOMAIN es |-> get_element_text(es[i])]

\* Iterator::collect of items that may panic: the first panic in document
\* order unwinds, else the vector of the values
collect(rs) ==
    LET bad == {i \in DOMAIN rs : ~rs[i].ok}
    IN  IF bad = {} THEN Ok([i \in DOMAIN rs |-> rs[i].val])
        ELSE rs[Min(bad)]

get_text_of_child_elements_as_type(T, r, child_element_name) ==
    LET es == named_children(r, child_element_name)
    IN  collect([i \in DOMAIN es |-> T_from(T, es[i])])

\* Some(v) of a collected Vec, whatever its length
some_of_vec(r) ==
    IF ~r.ok THEN r ELSE Ok(Some(r.val))

\* A collected Vec that must hold an element
fail_if_empty(r) ==
    IF ~r.ok THEN r
    ELSE IF r.val = <<>> THEN Missing(<<"empty">>) ELSE Ok(Some(r.val))

\* { let v = ...; if v.is_empty() { None } else { Some(v) } }
none_if_empty(r) ==
    IF ~r.ok THEN r
    ELSE IF r.val = <<>> THEN Ok(None) ELSE Ok(Some(r.val))

\* A struct expression that unwinds with the panic of its last failing field
Struct_last_panic(fields) ==
    LET bad == {i \in DOMAIN fields : ~fields[i][2].ok}
    IN  IF bad = {}
        THEN Ok([k \in {fields[i][1] : i \in DOMAIN fields} |->
                    fields[CHOOSE i \in DOMAIN fields : fields[i][1] = k][2].val])
        ELSE fields[Max(bad)][2]

\* A struct expression: the fields are evaluated in the order written, the
\* first panic unwinds, else the struct holds every field's value
Struct(fields) ==
    LET bad == {i \in DOMAIN fields : ~fields[i][2].ok}
    IN  IF bad = {}
        THEN Ok([k \in {fields[i][1] : i \in DOMAIN fields} |->
                    fields[CHOOSE i \in DOMAIN fields : fields[i][1] = k][2].val])
        ELSE fields[Min(bad)][2]

(***************************************************************************)
(* Enumeration values                                                      *)
(***************************************************************************)
Variant(n) == [variant |-> n]
Other(t) == [variant |-> "Other", text |-> t]

(***************************************************************************)
(* modelIdentification                                                     *)
(***************************************************************************)
ModelType_from(e) ==
    LET text == get_element_text(e)
    IN  CASE text = <<"F", "O", "M">> -> Ok(Variant("FOM"))
          [] text = <<"S", "O", "M">> -> Ok(Variant("SOM"))
          [] OTHER -> Unknown("modelidentification -> type", text)

\* A security classification whose fallback carries the text untrimmed
SecurityClassificationType_from_raw(e) ==
    LET text == get_element_text(e)
    IN  CASE text = <<"U", "n", "c", "l", "a", "s", "s", "i", "f", "i", "e", "d">> -> Ok(Variant("Unclassified"))
          [] text = <<"C", "o", "n", "f", "i", "d", "e", "n", "t", "i", "a", "l">> -> Ok(Variant("Confidential"))
          [] text = <<"S", "e", "c", "r", "e", "t">> -> Ok(Variant("Secret"))
          [] text = <<"T", "o", "p", " ", "S", "e", "c", "r", "e", "t">> -> Ok(Variant("TopSecret"))
          [] OTHER -> Ok(Other(get_element_text_untrimmed(e)))

SecurityClassificationType_from(e) ==
    LET text == get_element_text(e)
    IN  CASE text = <<"U", "n", "c", "l", "a", "s", "s", "i", "f", "i", "e", "d">> -> Ok(Variant("Unclassified"))
          [] text = <<"C", "o", "n", "f", "i", "d", "e", "n", "t", "i", "a", "l">> -> Ok(Variant("Confidential"))
          [] text = <<"S", "e", "c", "r", "e", "t">> -> Ok(Variant("Secret"))
          [] text = <<"T", "o", "p", " ", "S", "e", "c", "r", "e", "t">> -> Ok(Variant("TopSecret"))
          [] OTHER -> Ok(Other(text))

ApplicationDomainType_from(e) ==
    LET text == get_element_text(e)
    IN  CASE text = <<"A", "n", "a", "l", "y", "s", "i", "s">> -> Ok(Variant("Analysis"))
          [] text = <<"T", "r", "a", "i", "n", "i", "n", "g">> -> Ok(Variant("Training"))
          [] text = <<"T", "e", "s", "t", " ", "a", "n", "d", " ", "E", "v", "a", "l", "u", "a", "t", "i", "o", "n">> -> Ok(Variant("TestAndEvaluation"))
          [] text = <<"E", "n", "g", "i", "n", "e", "e", "r", "i", "n", "g">> -> Ok(Variant("Engineering"))
          [] text = <<"A", "c", "q", "u", "i", "s", "i", "t", "i", "o", "n">> -> Ok(Variant("Acquisition"))
          [] OTHER -> Ok(Other(text))

KeywordType_from(e) ==
    Struct(<<
        <<"taxonomy",
          IF has_child(e, "taxonomy")
          THEN Ok(Some(get_element_text(get_child(e, "taxonomy"))))
          ELSE Ok(None)>>,
        <<"keyword_value",
          IF has_child(e, "keywordValue")
          THEN Ok(get_element_text(get_child(e, "keywordValue")))
          ELSE Missing(<<"modelIdentification", "keyword", "keywordValue">>)>>
    >>)

PocTypeType_from(e) ==
    LET text == get_element_text(e)
    IN  CASE text = <<"P", "r", "i", "m", "a", "r", "y", " ", "a", "u", "t", "h", "o", "r">> -> Ok(Variant("PrimaryAuthor"))
          [] text = <<"C", "o", "n", "t", "r", "i", "b", "u", "t", "o", "r">> -> Ok(Variant("Contributor"))
          [] text = <<"P", "r", "o", "p", "o", "n", "e", "n", "t">> -> Ok(Variant("Proponent"))
          [] text = <<"S", "p", "o", "n", "s", "o", "r">> -> Ok(Variant("Sponsor"))
          [] text = <<"R", "e", "l", "e", "a", "s", "e", " ", "a", "u", "t", "h", "o", "r", "i", "t", "y">> -> Ok(Variant("ReleaseAuthority"))
          [] text = <<"T", "e", "c", "h", "n", "i", "c", "a", "l", " ", "P", "O", "C">> -> Ok(Variant("TechnicalPoc"))
          [] OTHER -> Unknown("modelIdentification -> poc -> pocType", text)

PocType_from(e) ==
    Struct(<<
        <<"poc_type",
          IF has_child(e, "pocType")
          THEN PocTypeType_from(get_child(e, "pocType"))
          ELSE Missing(<<"modelIdentification", "poc", "pocType">>)>>,
        <<"poc_name",
          IF has_child(e, "pocName")
          THEN Ok(Some(get_element_text(get_child(e, "pocName"))))
          ELSE Ok(None)>>,
        <<"poc_org",
          IF has_child(e, "pocOrg")
          THEN Ok(Some(get_element_text(get_child(e, "pocOrg"))))
          ELSE Ok(None)>>,
        <<"poc_telephones",
          none_if_empty(Ok(get_text_of_child_elements(e, "pocTelephone")))>>,
        <<"poc_emails",
          none_if_empty(Ok(get_text_of_child_elements(e, "pocEmail")))>>
    >>)

IdReferenceType_from(e) ==
    Struct(<<
        <<"reference_type",
          IF has_child(e, "type")
          THEN Ok(get_element_text(get_child(e, "type")))
          ELSE Missing(<<"modelIdentification", "reference", "type">>)>>,
        <<"identification",
          IF has_child(e, "identification")
          THEN Ok(get_element_text(get_child(e, "identification")))
          ELSE Missing(<<"modelIdentification", "reference", "identification">>)>>
    >>)

GlyphTypeType_from(attribute) ==
    LET text == to_uppercase(attribute)
    IN  CASE text = <<"B", "I", "T", "M", "A", "P">> -> Ok(Variant("Bitmap"))
          [] text = <<"J", "P", "G">> -> Ok(Variant("Jpg"))
          [] text = <<"G", "I", "F">> -> Ok(Variant("Gif"))
          [] text = <<"P", "N", "G">> -> Ok(Variant("Png"))
          [] text = <<"T", "I", "F", "F">> -> Ok(Variant("Tiff"))
          [] OTHER -> Unknown("modelIdentification -> glyph -> type", attribute)

\* get_text_of_attribute_or_panic(..).parse().unwrap()
parse_attribute_or_panic(element, attribute_name, panic_message, max) ==
    LET got == get_text_of_attribute_or_panic(element, attribute_name, panic_message)
    IN  IF got.ok THEN unwrap(parse_unsigned(got.val, max), got.val) ELSE got

GlyphType_from(e) ==
    Struct(<<
        <<"href", Ok(get_text_of_child_element(e, "href"))>>,
        <<"glyph_type",
          get_attribute_as_type_or_panic("GlyphTypeType", e, "type",
              <<"modelIdentification", "glyph[type]">>)>>,
        <<"height",
          parse_attribute_or_panic(e, "height",
              <<"modelIdentification", "glyph[height]">>, U16_MAX)>>,
        <<"width",
          parse_attribute_or_panic(e, "width",
              <<"modelIdentification", "glyph[width]">>, U16_MAX)>>,
        <<"alt",
          get_text_of_attribute_or_panic(e, "alt",
              <<"modelIdentification", "glyph[alt]">>)>>
    >>)

ModelIdentificationType_from(e) ==
    Struct(<<
        <<"name",
          IF has_child(e, "name")
          THEN Ok(get_element_text(get_child(e, "name")))
          ELSE Missing(<<"modelIdentification", "name">>)>>,
        <<"model_type",
          IF has_child(e, "type")
          THEN ModelType_from(get_child(e, "type"))
          ELSE Missing(<<"modelIdentification", "type">>)>>,
        <<"version",
          IF has_child(e, "version")
          THEN Ok(get_element_text(get_child(e, "version")))
          ELSE Missing(<<"modelIdentification", "version">>)>>,
        <<"modification_date",
          IF has_child(e, "modificationDate")
          THEN Ok(get_element_text(get_child(e, "modificationDate")))
          ELSE Missing(<<"modelIdentification", "modificationDate">>)>>,
        <<"security_classification",
          IF has_child(e, "securityClassification")
          THEN SecurityClassificationType_from(get_child(e, "securityClassification"))
          ELSE Missing(<<"modelIdentification", "securityClassification">>)>>,
        <<"release_restriction",
          none_if_empty(Ok(get_text_of_child_elements(e, "releaseRestriction")))>>,
        <<"purpose",
          IF has_child(e, "purpose")
          THEN Ok(Some(get_element_text(get_child(e, "purpose"))))
          ELSE Ok(None)>>,
        <<"application_domain",
          IF has_child(e, "applicationDomain")
          THEN SomeOf(ApplicationDomainType_from(get_child(e, "applicationDomain")))
          ELSE Ok(None)>>,
        <<"description",
          IF has_child(e, "description")
          THEN Ok(get_element_text(get_child(e, "description")))
          ELSE Missing(<<"modelIdentification", "description">>)>>,
        <<"use_limitation", Ok(get_text_of_child_element(e, "useLimitation"))>>,
        <<"use_history",
          none_if_empty(Ok(get_text_of_child_elements(e, "useHistory")))>>,
        <<"keywords",
          none_if_empty(get_text_of_child_elements_as_type("KeywordType", e, "keyword"))>>,
        <<"poc", get_text_of_child_elements_as_type("PocType", e, "poc")>>,
        <<"references",
          none_if_empty(get_text_of_child_elements_as_type("IdReferenceType", e, "reference"))>>,
        <<"other",
          IF has_child(e, "other")
          THEN Ok(Some(get_element_text(get_child(e, "other"))))
          ELSE Ok(None)>>,
        <<"glyph",
          IF has_child(e, "glyph")
          THEN SomeOf(GlyphType_from(get_child(e, "glyph")))
          ELSE Ok(None)>>
    >>)

(***************************************************************************)
(* serviceUtilization                                                      *)
(***************************************************************************)
\* a.parse().unwrap() of a bool attribute
parse_bool_attribute(a) == unwrap(parse_bool(a), a)

ServiceInfoType_from(e) ==
    Struct(<<
        <<"section",
          IF "section" \in DOMAIN e.attributes
          THEN Ok(e.attributes["section"])
          ELSE Missing(<<"objectModel", "serviceUtilization", "section">>)>>,
        <<"is_callback",
          IF "isCallback" \in DOMAIN e.attributes
          THEN parse_bool_attribute(e.attributes["isCallback"])
          ELSE Missing(<<"objectModel", "serviceUtilization", "isCallback">>)>>,
        <<"is_used",
          IF "isUsed" \in DOMAIN e.attributes
          THEN parse_bool_attribute(e.attributes["isUsed"])
          ELSE Missing(<<"objectModel", "serviceUtilization", "isUsed">>)>>
    >>)

ServiceUtiliizationType_from(e) ==
    Struct(<<
        <<"connect",
          IF has_child(e, "connect")
          THEN ServiceInfoType_from(get_child(e, "connect"))
          ELSE Missing(<<"objectModel", "serviceUtilization", "connect">>)>>,
        <<"disconnect",
          IF has_child(e, "disconnect")
          THEN ServiceInfoType_from(get_child(e, "disconnect"))
          ELSE Missing(<<"objectModel", "serviceUtilization", "connect">>)>>
    >>)

(***************************************************************************)
(* objects                                                                 *)
(***************************************************************************)
SharingType_from(e) ==
    LET text == get_element_text(e)
    IN  CASE text = <<"P", "u", "b", "l", "i", "s", "h">> -> Ok(Variant("Publish"))
          [] text = <<"S", "u", "b", "s", "c", "r", "i", "b", "e">> -> Ok(Variant("Subscribe"))
          [] text = <<"P", "u", "b", "l", "i", "s", "h", "S", "u", "b", "s", "c", "r", "i", "b", "e">> -> Ok(Variant("PublishSubscribe"))
          [] text = <<"N", "e", "i", "t", "h", "e", "r">> -> Ok(Variant("Neither"))
          [] OTHER -> Unknown("sharing type", text)

\* A reference that has to name something
ReferenceType_from_nonempty(e) ==
    IF get_element_text(e) = <<>>
    THEN Unknown("reference", get_element_text(e))
    ELSE Struct(<< <<"value", Ok(get_element_text(e))>> >>)

ReferenceType_from(e) == Struct(<< <<"value", Ok(get_element_text(e))>> >>)

UpdateType_from(e) ==
    LET text == get_element_text(e)
    IN  CASE text = <<"S", "t", "a", "t", "i", "c">> -> Ok(Variant("Static"))
          [] text = <<"P", "e", "r", "i", "o", "d", "i", "c">> -> Ok(Variant("Periodic"))
          [] text = <<"C", "o", "n", "d", "i", "t", "i", "o", "n", "a", "l">> -> Ok(Variant("Conditional"))
          [] text = <<"N", "A">> -> Ok(Variant("Na"))
          [] OTHER -> Unknown("UpdateType", text)

OwnershipType_from(e) ==
    LET text == get_element_text(e)
    IN  CASE text = <<"D", "i", "v", "e", "s", "t">> -> Ok(Variant("Divest"))
          [] text = <<"A", "c", "q", "u", "i", "r", "e">> -> Ok(Variant("Acquire"))
          [] text = <<"D", "i", "v", "e", "s", "t", "A", "c", "q", "u", "i", "r", "e">> -> Ok(Variant("DivestAcquire"))
          [] text = <<"N", "o", "T", "r", "a", "n", "s", "f", "e", "r">> -> Ok(Variant("NoTransfer"))
          [] OTHER -> Unknown("OwnershipType", text)

OrderType_from(e) ==
    LET text == get_element_text(e)
    IN  CASE text = <<"R", "e", "c", "e", "i", "v", "e">> -> Ok(Variant("Receive"))
          [] text = <<"T", "i", "m", "e", "S", "t", "a", "m", "p">> -> Ok(Variant("TimeStamp"))
          [] OTHER -> Unknown("OrderType", text)

AttributePath == <<"objectModel", "objects", "objectClass", "attribute">>

AttributeType_from(e) ==
    Struct(<<
        <<"name",
          IF has_child(e, "name")
          THEN Ok(get_element_text(get_child(e, "name")))
          ELSE Missing(AttributePath \o <<"name">>)>>,
        <<"data_type",
          IF has_child(e, "dataType")
          THEN ReferenceType_from(get_child(e, "dataType"))
          ELSE Missing(AttributePath \o <<"dataType">>)>>,
        <<"update_type",
          IF has_child(e, "updateType")
          THEN UpdateType_from(get_child(e, "updateType"))
          ELSE Missing(AttributePath \o <<"updateType">>)>>,
        <<"update_condition",
          IF has_child(e, "updateCondition")
          THEN Ok(Some(get_element_text(get_child(e, "updateCondition"))))
          ELSE Ok(None)>>,
        <<"onwership",
          IF has_child(e, "ownership")
          THEN OwnershipType_from(get_child(e, "ownership"))
          ELSE Missing(AttributePath \o <<"ownership">>)>>,
        <<"sharing",
          IF has_child(e, "sharing")
          THEN SharingType_from(get_child(e, "sharing"))
          ELSE Missing(AttributePath \o <<"sharing">>)>>,
        <<"dimensions",
          IF has_child(e, "dimensions")
          THEN SomeOf(get_text_of_child_elements_as_type("ReferenceType",
                          get_child(e, "dimensions"), "dimension"))
          ELSE Ok(None)>>,
        <<"transportation",
          IF has_child(e, "transportation")
          THEN ReferenceType_from(get_child(e, "transportation"))
          ELSE Missing(AttributePath \o <<"transportation">>)>>,
        <<"order",
          IF has_child(e, "order")
          THEN OrderType_from(get_child(e, "order"))
          ELSE Missing(AttributePath \o <<"order">>)>>,
        <<"semantics",
          IF has_child(e, "semantics")
          THEN Ok(Some(get_element_text(get_child(e, "semantics"))))
          ELSE Ok(None)>>
    >>)

RECURSIVE ObjectClassType_from(_)
ObjectClassType_from(e) ==
    Struct(<<
        <<"name",
          IF has_child(e, "name")
          THEN Ok(get_element_text(get_child(e, "name")))
          ELSE Missing(<<"objectModel", "objects", "objectClass", "name">>)>>,
        <<"sharing",
          IF has_child(e, "sharing")
          THEN SharingType_from(get_child(e, "sharing"))
          ELSE Missing(<<"objectModel", "objects", "objectClass", "sharing">>)>>,
        <<"semantics",
          IF has_child(e, "semantics")
          THEN Ok(Some(get_element_text(get_child(e, "semantics"))))
          ELSE Ok(None)>>,
        <<"attributes",
          none_if_empty(get_text_of_child_elements_as_type("AttributeType", e, "attribute"))>>,
        <<"object_classes",
          none_if_empty(get_text_of_child_elements_as_type("ObjectClassType", e, "objectClasses"))>>
    >>)

ObjectsType_from(e) ==
    Struct(<<
        <<"root_object_class",
          IF has_child(e, "objectClass")
          THEN ObjectClassType_from(get_child(e, "objectClass"))
          ELSE Missing(<<"objectModel", "objects", "objectClass">>)>>
    >>)

(***************************************************************************)
(* interactions                                                            *)
(***************************************************************************)
ParameterPath == <<"interactions", "interactionClass", "parameter">>

ParameterType_from(e) ==
    Struct(<<
        <<"name",
          get_text_of_child_element_or_panic(e, "name", ParameterPath \o <<"name">>)>>,
        <<"data_type",
          get_child_element_as_type_or_panic("ReferenceType", e, "dataType",
              ParameterPath \o <<"dataType">>)>>,
        <<"semantics", Ok(get_text_of_child_element(e, "semantics"))>>
    >>)

InteractionClassPath == <<"objectModel", "interactions", "interactionClass">>

\* An interaction class that leaves its nested classes out
InteractionClassType_from_flat(e) ==
    Struct(<<
        <<"name",
          get_text_of_child_element_or_panic(e, "name",
              InteractionClassPath \o <<"name">>)>>,
        <<"sharing",
          get_child_element_as_type_or_panic("SharingType", e, "sharing",
              InteractionClassPath \o <<"sharing">>)>>,
        <<"dimensions",
          none_if_empty(get_text_of_child_elements_as_type("ReferenceType", e, "dimension"))>>,
        <<"transportation",
          get_child_element_as_type_or_panic("ReferenceType", e, "transportation",
              InteractionClassPath \o <<"transportation">>)>>,
        <<"order",
          get_child_element_as_type_or_panic("OrderType", e, "order",
              InteractionClassPath \o <<"order">>)>>,
        <<"semantics", Ok(get_text_of_child_element(e, "semantics"))>>,
        <<"parameters",
          none_if_empty(get_text_of_child_elements_as_type("ParameterType", e, "parameter"))>>,
        <<"interaction_classes", Ok(None)>>
    >>)

RECURSIVE InteractionClassType_from(_)
InteractionClassType_from(e) ==
    Struct(<<
        <<"name",
          get_text_of_child_element_or_panic(e, "name",
              InteractionClassPath \o <<"name">>)>>,
        <<"sharing",
          get_child_element_as_type_or_panic("SharingType", e, "sharing",
              InteractionClassPath \o <<"sharing">>)>>,
        <<"dimensions",
          none_if_empty(get_text_of_child_elements_as_type("ReferenceType", e, "dimension"))>>,
        <<"transportation",
          get_child_element_as_type_or_panic("ReferenceType", e, "transportation",
              InteractionClassPath \o <<"transportation">>)>>,
        <<"order",
          get_child_element_as_type_or_panic("OrderType", e, "order",
              InteractionClassPath \o <<"order">>)>>,
        <<"semantics", Ok(get_text_of_child_element(e, "semantics"))>>,
        <<"parameters",
          none_if_empty(get_text_of_child_elements_as_type("ParameterType", e, "parameter"))>>,
        <<"interaction_classes",
          none_if_empty(get_text_of_child_elements_as_type("InteractionClassType", e,
                            "interactionClass"))>>
    >>)

InteractionsType_from(e) ==
    Struct(<<
        <<"interactions",
          get_child_element_as_type_or_panic("InteractionClassType", e,
              "interactionClass", InteractionClassPath)>>
    >>)

(***************************************************************************)
(* dimensions, time, tags, synchronizations, transportations                *)
(***************************************************************************)
\* Self {}: the struct has no field
DimensionsType_from(e) == Struct(<<>>)

TimeTypeType_from(e) ==
    Struct(<<
        <<"data_type",
          get_child_element_as_type_or_panic("ReferenceType", e, "dataType",
              <<"time type", "dataType">>)>>,
        <<"semantics", Ok(get_text_of_child_element(e, "semantics"))>>
    >>)

TimeType_from(e) ==
    Struct(<<
        <<"time_stamp", get_child_element_as_type("TimeTypeType", e, "timeStamp")>>,
        <<"lookahead", get_child_element_as_type("TimeTypeType", e, "lookahead")>>
    >>)

TagType_from(e) ==
    Struct(<<
        <<"data_type",
          get_child_element_as_type_or_panic("ReferenceType", e, "dataType",
              <<"tag type", "dataType">>)>>,
        <<"semantics", Ok(get_text_of_child_element(e, "semantics"))>>
    >>)

TagNames ==
    <<"update_reflect_tag", "send_receive_tag", "delete_remove_tag",
      "divestiture_request_tag", "divestiture_completion_tag",
      "acquisition_request_tag", "request_update_tag">>

\* each field is get_child_element_as_type(e, <the field's own name>)
TagsType_from(e) ==
    Struct([i \in DOMAIN TagNames |->
        <<TagNames[i], get_child_element_as_type("TagType", e, TagNames[i])>>])

CapabilityType_from(e) ==
    LET text == get_element_text(e)
    IN  CASE text = <<"R", "e", "g", "i", "s", "t", "e", "r">> -> Ok(Variant("Register"))
          [] text = <<"A", "c", "h", "i", "e", "v", "e">> -> Ok(Variant("Achieve"))
          [] text = <<"R", "e", "g", "i", "s", "t", "e", "r", "A", "c", "h", "i", "e", "v", "e">> -> Ok(Variant("RegisterAchieve"))
          [] text = <<"N", "o", "S", "y", "n", "c", "h">> -> Ok(Variant("NoSynch"))
          [] text = <<"N", "A">> -> Ok(Variant("Na"))
          [] OTHER -> Unknown("capability", text)

SynchronizationPointType_from(e) ==
    Struct(<<
        <<"label",
          get_text_of_child_element_or_panic(e, "label",
              <<"synchronizationPoint", "label">>)>>,
        <<"data_type", get_child_element_as_type("ReferenceType", e, "dataType")>>,
        <<"capability",
          get_child_element_as_type_or_panic("CapabilityType", e, "capability",
              <<"synchronizationPoint", "capability">>)>>,
        <<"semantics", Ok(get_text_of_child_element(e, "semantics"))>>
    >>)

SynchronizationsType_from(e) ==
    Struct(<<
        <<"synchronization_points",
          none_if_empty(get_text_of_child_elements_as_type("SynchronizationPointType",
                            e, "synchronizationPoint"))>>
    >>)

\* A reliability that reads every text but "Yes" as No
ReliableType_from_yes_or_no(e) ==
    LET text == get_element_text(e)
    IN  IF text = <<"Y", "e", "s">> THEN Ok(Variant("Yes")) ELSE Ok(Variant("No"))

ReliableType_from(e) ==
    LET text == get_element_text(e)
    IN  CASE text = <<"Y", "e", "s">> -> Ok(Variant("Yes"))
          [] text = <<"N", "o">> -> Ok(Variant("No"))
          [] OTHER -> Unknown("reliable type", text)

TransportationType_from(e) ==
    Struct(<<
        <<"name",
          get_text_of_child_element_or_panic(e, "name", <<"transportation", "name">>)>>,
        <<"reliable",
          get_child_element_as_type_or_panic("ReliableType", e, "reliable",
              <<"transportation", "reliable">>)>>,
        <<"semantics", Ok(get_text_of_child_element(e, "semantics"))>>
    >>)

TransportationsType_from(e) ==
    Struct(<<
        <<"transportations",
          none_if_empty(get_text_of_child_elements_as_type("TransportationType", e,
                            "transportation"))>>
    >>)

\* A switch that reads its text without regard to letter case or padding
SwitchType_from_lenient(attribute) ==
    Struct(<< <<"is_enabled",
                IF to_uppercase(trim(attribute)) = <<"T", "R", "U", "E">> THEN Ok(TRUE)
                ELSE IF to_uppercase(trim(attribute)) = <<"F", "A", "L", "S", "E">> THEN Ok(FALSE)
                ELSE Unwrap(attribute)>> >>)

(***************************************************************************)
(* switches, updateRates                                                   *)
(***************************************************************************)
SwitchType_from(attribute) ==
    Struct(<< <<"is_enabled", unwrap(parse_bool(attribute), attribute)>> >>)

ResignSwitchType_from(attribute) ==
    CASE attribute = <<"U", "n", "c", "o", "n", "d", "i", "t", "i", "o", "n", "a", "l", "l", "y", "D", "i", "v", "e", "s", "t", "A", "t", "t", "r", "i", "b", "u", "t", "e", "s">> ->
            Ok(Variant("UnconditionallyDivestAttributes"))
      [] attribute = <<"D", "e", "l", "e", "t", "e", "O", "b", "j", "e", "c", "t", "s">> -> Ok(Variant("DeleteObjects"))
      [] attribute = <<"C", "a", "n", "c", "e", "l", "P", "e", "n", "d", "i", "n", "g", "O", "w", "n", "e", "r", "s", "h", "i", "p", "A", "c", "q", "u", "i", "s", "i", "t", "i", "o", "n", "s">> ->
            Ok(Variant("CancelPendingOwnershipAcquisitions"))
      [] attribute = <<"D", "e", "l", "e", "t", "e", "O", "b", "j", "e", "c", "t", "s", "T", "h", "e", "n", "D", "i", "v", "e", "s", "t">> -> Ok(Variant("DeleteObjectsThenDivest"))
      [] attribute = <<"C", "a", "n", "c", "e", "l", "T", "h", "e", "n", "D", "e", "l", "e", "t", "e", "T", "h", "e", "n", "D", "i", "v", "e", "s", "t">> ->
            Ok(Variant("CancelThenDeleteThenDivest"))
      [] attribute = <<"N", "o", "A", "c", "t", "i", "o", "n">> -> Ok(Variant("NoAction"))
      [] OTHER -> Unknown("resign switch type", attribute)

\* The ten SwitchType fields of SwitchesType, in the order written
SwitchNames ==
    <<"auto_provide", "convey_region_designator_sets", "convey_producing_federate",
      "attribute_scope_advisory", "attribute_relevance_advisory",
      "object_class_relevance_advisory", "interaction_relevance_advisory",
      "service_reporting", "exception_reporting", "delay_subscription_evaluation">>

\* Switches whose absent flags read as disabled
SwitchesType_from_or_default(e) ==
    Struct([i \in DOMAIN SwitchNames |->
                <<SwitchNames[i],
                  IF ~get_text_of_attribute(e, SwitchNames[i]).some
                  THEN SwitchType_from(<<"f", "a", "l", "s", "e">>)
                  ELSE get_attribute_as_type_or_panic("SwitchType", e, SwitchNames[i],
                           <<"switch", SwitchNames[i]>>)>>]
           \o
           << <<"automatic_resign_action",
                get_attribute_as_type_or_panic("ResignSwitchType", e,
                    "automatic_resign_action",
                    <<"switch", "automatic_resign_action">>)>> >>)

\* Switches whose resign action may be left out
SwitchesType_from_optional_resign(e) ==
    Struct([i \in DOMAIN SwitchNames |->
                <<SwitchNames[i],
                  get_attribute_as_type_or_panic("SwitchType", e, SwitchNames[i],
                      <<"switch", SwitchNames[i]>>)>>]
           \o
           << <<"automatic_resign_action",
                get_attribute_as_type("ResignSwitchType", e,
                    "automatic_resign_action")>> >>)

\* each field is get_attribute_as_type_or_panic(e, <name>, "No 'switch -> <name>' found")
SwitchesType_from(e) ==
    Struct([i \in DOMAIN SwitchNames |->
                <<SwitchNames[i],
                  get_attribute_as_type_or_panic("SwitchType", e, SwitchNames[i],
                      <<"switch", SwitchNames[i]>>)>>]
           \o
           << <<"automatic_resign_action",
                get_attribute_as_type_or_panic("ResignSwitchType", e,
                    "automatic_resign_action",
                    <<"switch", "automatic_resign_action">>)>> >>)

RateType_from(e) == Struct(<< <<"value", Ok(get_element_text(e))>> >>)

UpdateRateType_from(e) ==
    Struct(<<
        <<"name",
          get_text_of_child_element_or_panic(e, "name", <<"updateRate", "name">>)>>,
        <<"rate",
          get_child_element_as_type_or_panic("RateType", e, "rate",
              <<"updateRate", "rate">>)>>,
        <<"semantics", Ok(get_text_of_child_element(e, "semantics"))>>
    >>)

UpdateRatesType_from(e) ==
    Struct(<<
        <<"update_rates",
          none_if_empty(get_text_of_child_elements_as_type("UpdateRateType", e,
                            "updateRate"))>>
    >>)

(***************************************************************************)
(* dataTypes                                                               *)
(***************************************************************************)
SizeType_from(e) ==
    Struct(<< <<"size",
                unwrap(parse_unsigned(get_element_text(e), U8_MAX),
                       get_element_text(e))>> >>)

EndianType_from(e) ==
    LET text == get_element_text(e)
    IN  CASE text = <<"B", "i", "g">> -> Ok(Variant("Big"))
          [] text = <<"L", "i", "t", "t", "l", "e">> -> Ok(Variant("Little"))
          [] OTHER -> Unknown("endian type", text)

BasicDataType_from(e) ==
    Struct(<<
        <<"name",
          get_text_of_child_element_or_panic(e, "name", <<"basicData", "name">>)>>,
        <<"size",
          get_child_element_as_type_or_panic("SizeType", e, "size",
              <<"basicData", "size">>)>>,
        <<"interpretation",
          get_text_of_child_element_or_panic(e, "interpretation",
              <<"basicData", "interpretation">>)>>,
        <<"endian",
          get_child_element_as_type_or_panic("EndianType", e, "endian",
              <<"basicData", "endian">>)>>,
        <<"encoding",
          get_text_of_child_element_or_panic(e, "encoding",
              <<"basicData", "encoding">>)>>
    >>)

BasicDataRepresentationsType_from(e) ==
    Struct(<<
        <<"basic_datas",
          none_if_empty(get_text_of_child_elements_as_type("BasicDataType", e,
                            "basicData"))>>
    >>)

SimpleDataType_from(e) ==
    Struct(<<
        <<"name",
          get_text_of_child_element_or_panic(e, "name", <<"simpleData", "name">>)>>,
        <<"representation",
          get_child_element_as_type_or_panic("ReferenceType", e, "representation",
              <<"simpleData", "representation">>)>>,
        <<"units", Ok(get_text_of_child_element(e, "units"))>>,
        <<"resolution", Ok(get_text_of_child_element(e, "resolution"))>>,
        <<"accuracy", Ok(get_text_of_child_element(e, "accuracy"))>>,
        <<"semantics", Ok(get_text_of_child_element(e, "semantics"))>>
    >>)

SimpleDataTypesType_from(e) ==
    Struct(<<
        <<"simple_datas",
          none_if_empty(get_text_of_child_elements_as_type("SimpleDataType", e,
                            "simpleData"))>>
    >>)

EnumeratorType_from(e) ==
    Struct(<<
        <<"name",
          get_text_of_child_element_or_panic(e, "name",
              <<"enumeratedData", "enumerator", "name">>)>>,
        <<"value", Ok(get_text_of_child_elements(e, "value"))>>
    >>)

EnumeratedDataType_from(e) ==
    Struct(<<
        <<"name",
          get_text_of_child_element_or_panic(e, "name", <<"enumeratedData", "name">>)>>,
        <<"representation",
          get_child_element_as_type_or_panic("ReferenceType", e, "representation",
              <<"enumeratedData", "representation">>)>>,
        <<"semantics", Ok(get_text_of_child_element(e, "semantics"))>>,
        <<"enumerators",
          none_if_empty(get_text_of_child_elements_as_type("EnumeratorType", e,
                            "enumerator"))>>
    >>)

EnumeratedDataTypesType_from(e) ==
    Struct(<<
        <<"enumerated_datas",
          none_if_empty(get_text_of_child_elements_as_type("EnumeratedDataType", e,
                            "enumeratedData"))>>
    >>)

ArrayDataTypeEncodingType_from(e) ==
    LET text == get_element_text(e)
    IN  CASE text = <<"H", "L", "A", "f", "i", "x", "e", "d", "A", "r", "r", "a", "y">> -> Ok(Variant("HlaFixedArray"))
          [] text = <<"H", "L", "A", "v", "a", "r", "i", "a", "b", "l", "e", "A", "r", "r", "a", "y">> -> Ok(Variant("HlaVariableArray"))
          [] OTHER -> Unknown("array data type encoding", text)

ArrayDataType_from(e) ==
    Struct(<<
        <<"name",
          get_text_of_child_element_or_panic(e, "name", <<"arrayData", "name">>)>>,
        <<"data_type",
          get_child_element_as_type_or_panic("ReferenceType", e, "representation",
              <<"arrayData", "representation">>)>>,
        <<"cardinality",
          get_text_of_child_element_or_panic(e, "cardinality",
              <<"arrayData", "cardinality">>)>>,
        <<"encoding",
          get_child_element_as_type_or_panic("ArrayDataTypeEncodingType", e,
              "encoding", <<"arrayData", "encoding">>)>>,
        <<"semantics", Ok(get_text_of_child_element(e, "semantics"))>>
    >>)

ArrayDataTypesType_from(e) ==
    Struct(<<
        <<"array_datas",
          none_if_empty(get_text_of_child_elements_as_type("ArrayDataType", e,
                            "arrayData"))>>
    >>)

FixedRecordEncodingType_from(e) ==
    LET text == get_element_text(e)
    IN  CASE text = <<"H", "L", "A", "f", "i", "x", "e", "d", "R", "e", "c", "o", "r", "d">> -> Ok(Variant("HlaFixedRecord"))
          [] OTHER -> Unknown("fixed record encoding", text)

FieldType_from(e) ==
    Struct(<<
        <<"name",
          get_text_of_child_element_or_panic(e, "name",
              <<"fixedRecrodData", "field", "name">>)>>,
        <<"data_type",
          get_child_element_as_type_or_panic("ReferenceType", e, "dataType",
              <<"fixedRecordData", "field", "dataType">>)>>,
        <<"semantics", Ok(get_text_of_child_element(e, "semantics"))>>
    >>)

FixedRecordDataType_from(e) ==
    Struct(<<
        <<"name",
          get_text_of_child_element_or_panic(e, "name", <<"fixedRecordData", "name">>)>>,
        <<"encoding",
          get_child_element_as_type_or_panic("FixedRecordEncodingType", e,
              "encoding", <<"fixedRecordData", "encoding">>)>>,
        <<"semantics", Ok(get_text_of_child_element(e, "semantics"))>>,
        <<"fields",
          none_if_empty(get_text_of_child_elements_as_type("FieldType", e, "field"))>>
    >>)

FixedRecordDataTypesType_from(e) ==
    Struct(<<
        <<"fixed_record_datas",
          none_if_empty(get_text_of_child_elements_as_type("FixedRecordDataType", e,
                            "fixedRecordData"))>>
    >>)

VariantRecordEncodingType_from(e) ==
    LET text == get_element_text(e)
    IN  CASE text = <<"H", "L", "A", "v", "a", "r", "i", "a", "n", "t", "R", "e", "c", "o", "r", "d">> -> Ok(Variant("HlaVariantRecord"))
          [] OTHER -> Unknown("variant record encoding", text)

AlternativeType_from(e) ==
    Struct(<<
        <<"enumerator",
          get_text_of_child_element_or_panic(e, "enumerator",
              <<"variantRecordData", "alternative", "enumerator">>)>>,
        <<"name", Ok(get_text_of_child_element(e, "name"))>>,
        <<"data_type", get_child_element_as_type("ReferenceType", e, "dataType")>>,
        <<"semantics", Ok(get_text_of_child_element(e, "semantics"))>>
    >>)

VariantRecordDataType_from(e) ==
    Struct(<<
        <<"name",
          get_text_of_child_element_or_panic(e, "name", <<"variantRecordData", "name">>)>>,
        <<"discriminant",
          get_text_of_child_element_or_panic(e, "discriminant",
              <<"variantRecordData", "discriminant">>)>>,
        <<"data_type",
          get_child_element_as_type_or_panic("ReferenceType", e, "dataType",
              <<"variantRecordData", "dataType">>)>>,
        <<"alternatives",
          none_if_empty(get_text_of_child_elements_as_type("AlternativeType", e,
                            "alternative"))>>,
        <<"encoding",
          get_child_element_as_type_or_panic("VariantRecordEncodingType", e,
              "encoding", <<"variantRecordData", "encoding">>)>>,
        <<"semantics", Ok(get_text_of_child_element(e, "semantics"))>>
    >>)

VariantRecordDataTypesType_from(e) ==
    Struct(<<
        <<"variant_record_datas",
          none_if_empty(get_text_of_child_elements_as_type("VariantRecordDataType", e,
                            "variantRecordData"))>>
    >>)

DataTypesType_from(e) ==
    Struct(<<
        <<"basic_data_representations",
          get_child_element_as_type_or_panic("BasicDataRepresentationsType", e,
              "basicDataRepresentations", <<"dataTypes", "basicDataRepresentations">>)>>,
        <<"simple_data_types",
          get_child_element_as_type_or_panic("SimpleDataTypesType", e,
              "simpleDataTypes", <<"dataTypes", "simpleDataTypes">>)>>,
        <<"enumerated_data_types",
          get_child_element_as_type_or_panic("EnumeratedDataTypesType", e,
              "enumeratedDataTypes", <<"dataTypes", "enumeratedDataTypes">>)>>,
        <<"array_data_types",
          get_child_element_as_type_or_panic("ArrayDataTypesType", e,
              "arrayDataTypes", <<"dataTypes", "arrayDataTypes">>)>>,
        <<"fixed_record_data_types",
          get_child_element_as_type_or_panic("FixedRecordDataTypesType", e,
              "fixedRecordDataTypes", <<"dataTypes", "fixedRecordDataTypes">>)>>,
        <<"variand_record_data_types",
          get_child_element_as_type_or_panic("VariantRecordDataTypesType", e,
              "variantRecordDataTypes", <<"dataTypes", "variantRecordDataTypes">>)>>
    >>)

(***************************************************************************)
(* notes                                                                   *)
(***************************************************************************)
NoteType_from(e) ==
    Struct(<<
        <<"label",
          get_text_of_child_element_or_panic(e, "label", <<"note", "label">>)>>,
        <<"semantics", Ok(get_text_of_child_element(e, "semantics"))>>
    >>)

NotesType_from(e) ==
    Struct(<<
        <<"notes",
          none_if_empty(get_text_of_child_elements_as_type("NoteType", e, "note"))>>
    >>)

T_from(T, x) ==
    CASE T = "AlternativeType" -> AlternativeType_from(x)
      [] T = "ArrayDataType" -> ArrayDataType_from(x)
      [] T = "ArrayDataTypeEncodingType" -> ArrayDataTypeEncodingType_from(x)
      [] T = "ArrayDataTypesType" -> ArrayDataTypesType_from(x)
      [] T = "AttributeType" -> AttributeType_from(x)
      [] T = "BasicDataRepresentationsType" -> BasicDataRepresentationsType_from(x)
      [] T = "BasicDataType" -> BasicDataType_from(x)
      [] T = "CapabilityType" -> CapabilityType_from(x)
      [] T = "EndianType" -> EndianType_from(x)
      [] T = "EnumeratedDataType" -> EnumeratedDataType_from(x)
      [] T = "EnumeratedDataTypesType" -> EnumeratedDataTypesType_from(x)
      [] T = "EnumeratorType" -> EnumeratorType_from(x)
      [] T = "FieldType" -> FieldType_from(x)
      [] T = "FixedRecordDataType" -> FixedRecordDataType_from(x)
      [] T = "FixedRecordDataTypesType" -> FixedRecordDataTypesType_from(x)
      [] T = "FixedRecordEncodingType" -> FixedRecordEncodingType_from(x)
      [] T = "GlyphTypeType" -> GlyphTypeType_from(x)
      [] T = "IdReferenceType" -> IdReferenceType_from(x)
      [] T = "InteractionClassType" -> InteractionClassType_from(x)
      [] T = "KeywordType" -> KeywordType_from(x)
      [] T = "NoteType" -> NoteType_from(x)
      [] T = "ObjectClassType" -> ObjectClassType_from(x)
      [] T = "OrderType" -> OrderType_from(x)
      [] T = "ParameterType" -> ParameterType_from(x)
      [] T = "PocType" -> PocType_from(x)
      [] T = "RateType" -> RateType_from(x)
      [] T = "ReferenceType" -> ReferenceType_from(x)
      [] T = "ReliableType" -> ReliableType_from(x)
      [] T = "ResignSwitchType" -> ResignSwitchType_from(x)
      [] T = "ServiceUtiliizationType" -> ServiceUtiliizationType_from(x)
      [] T = "SharingType" -> SharingType_from(x)
      [] T = "SimpleDataType" -> SimpleDataType_from(x)
      [] T = "SimpleDataTypesType" -> SimpleDataTypesType_from(x)
      [] T = "SizeType" -> SizeType_from(x)
      [] T = "SwitchType" -> SwitchType_from(x)
      [] T = "SynchronizationPointType" -> SynchronizationPointType_from(x)
      [] T = "TagType" -> TagType_from(x)
      [] T = "TimeTypeType" -> TimeTypeType_from(x)
      [] T = "TransportationType" -> TransportationType_from(x)
      [] T = "UpdateRateType" -> UpdateRateType_from(x)
      [] T = "VariantRecordDataType" -> VariantRecordDataType_from(x)
      [] T = "VariantRecordDataTypesType" -> VariantRecordDataTypesType_from(x)
      [] T = "VariantRecordEncodingType" -> VariantRecordEncodingType_from(x)

(***************************************************************************)
(* The object model: ObjectModelType::from evaluates its thirteen fields   *)
(* in the order written; each operator below is one field's expression.    *)
(***************************************************************************)
model_identification(e) ==
    IF has_child(e, "modelIdentification")
    THEN ModelIdentificationType_from(get_child(e, "modelIdentification"))
    ELSE Missing(<<"modelIdentification">>)

\* serviceUtilization read as a section that has to be there
service_utilization_or_panic(e) ==
    get_child_element_as_type_or_panic("ServiceUtiliizationType", e,
        "serviceUtilization", <<"objectModel", "serviceUtilization">>)

service_utilization(e) ==
    IF has_child(e, "serviceUtilization")
    THEN SomeOf(ServiceUtiliizationType_from(get_child(e, "serviceUtilization")))
    ELSE Ok(None)

objects(e) ==
    IF has_child(e, "objects")
    THEN ObjectsType_from(get_child(e, "objects"))
    ELSE Missing(<<"objects">>)

interactions(e) ==
    IF has_child(e, "interactions")
    THEN InteractionsType_from(get_child(e, "interactions"))
    ELSE Missing(<<"interactions">>)

dimensions(e) ==
    IF has_child(e, "dimensions")
    THEN DimensionsType_from(get_child(e, "dimensions"))
    ELSE Missing(<<"dimensions">>)

time(e) ==
    IF has_child(e, "time")
    THEN SomeOf(TimeType_from(get_child(e, "time")))
    ELSE Ok(None)

\* tags never read
tags_ignored(e) == Ok(None)

tags(e) ==
    IF has_child(e, "tags")
    THEN SomeOf(TagsType_from(get_child(e, "tags")))
    ELSE Ok(None)

synchronizations(e) ==
    IF has_child(e, "synchronizations")
    THEN SomeOf(SynchronizationsType_from(get_child(e, "synchronizations")))
    ELSE Ok(None)

transportations(e) ==
    IF has_child(e, "transportations")
    THEN TransportationsType_from(get_child(e, "transportations"))
    ELSE Missing(<<"transportations">>)

switches(e) ==
    IF has_child(e, "switches")
    THEN SwitchesType_from(get_child(e, "switches"))
    ELSE Missing(<<"switches">>)

update_rates(e) ==
    IF has_child(e, "updateRates")
    THEN SomeOf(UpdateRatesType_from(get_child(e, "updateRates")))
    ELSE Ok(None)

data_types(e) ==
    IF has_child(e, "dataTypes")
    THEN DataTypesType_from(get_child(e, "dataTypes"))
    ELSE Missing(<<"dataTypes">>)

notes(e) ==
    IF has_child(e, "notes")
    THEN SomeOf(NotesType_from(get_child(e, "notes")))
    ELSE Ok(None)

ObjectModelType_from(e) ==
    Struct(<<
        <<"model_identification", model_identification(e)>>,
        <<"service_utilization", service_utilization(e)>>,
        <<"objects", objects(e)>>,
        <<"interactions", interactions(e)>>,
        <<"dimensions", dimensions(e)>>,
        <<"time", time(e)>>,
        <<"tags", tags(e)>>,
        <<"synchronizations", synchronizations(e)>>,
        <<"transportations", transportations(e)>>,
        <<"switches", switches(e)>>,
        <<"update_rates", update_rates(e)>>,
        <<"data_types", data_types(e)>>,
        <<"notes", notes(e)>>
    >>)

(***************************************************************************)
(* Input documents.  Minimal is the document that holds the mandatory      *)
(* sections and nothing else; the other documents deviate from it in at    *)
(* most MaxDeviations places.                                              *)
(***************************************************************************)
MaxDeviations == 2

TextElement(n, t) == Element(n, NoAttributes, <<TextNode(t)>>)

RequiredSections ==
    {"modelIdentification", "objects", "interactions", "dimensions",
     "transportations", "switches", "dataTypes"}
OptionalSections ==
    {"serviceUtilization", "time", "tags", "synchronizations", "updateRates",
     "notes"}
BooleanSwitchAttributes == {SwitchNames[i] : i \in DOMAIN SwitchNames}

SwitchAttributes ==
    {SwitchNames[i] : i \in DOMAIN SwitchNames} \cup {"automatic_resign_action"}

Deviations ==
    {<<"drop", s>> : s \in RequiredSections}
    \cup {<<"add", s>> : s \in OptionalSections}
    \cup {<<"unset", a>> : a \in SwitchAttributes}
    \cup {<<"with", x>> : x \in {"unknown type", "transportation", "reliable Maybe",
                                 "no disconnect", "attribute", "no class name",
                                 "padded name", "malformed switch"}}

\* The subsets of S of at most k elements
RECURSIVE SubsetsUpTo(_, _)
SubsetsUpTo(S, k) ==
    IF k = 0 THEN {{}}
    ELSE LET smaller == SubsetsUpTo(S, k - 1)
         IN  smaller \cup {D \cup {d} : D \in smaller, d \in S}

DeviationSets == SubsetsUpTo(Deviations, MaxDeviations)

DocModelIdentification(D) ==
    Element("modelIdentification", NoAttributes, <<
        TextElement("name",
            IF <<"with", "padded name">> \in D THEN <<" ", "r", "p", "r", " ">> ELSE <<"r", "p", "r">>),
        TextElement("type",
            IF <<"with", "unknown type">> \in D THEN <<"X", "O", "M">> ELSE <<"F", "O", "M">>),
        TextElement("version", <<"2">>),
        TextElement("modificationDate", <<"2", "0", "1", "5">>),
        TextElement("securityClassification", <<"U", "n", "c", "l", "a", "s", "s", "i", "f", "i", "e", "d">>),
        TextElement("description", <<"b", "a", "s", "e">>)
    >>)

DocServiceInfo(n) ==
    Element(n, [a \in {"section", "isCallback", "isUsed"} |->
                   IF a = "section" THEN <<"4", ".", "2">> ELSE <<"f", "a", "l", "s", "e">>], <<>>)

DocServiceUtilization(D) ==
    Element("serviceUtilization", NoAttributes,
        <<DocServiceInfo("connect")>>
        \o (IF <<"with", "no disconnect">> \in D THEN <<>>
            ELSE <<DocServiceInfo("disconnect")>>))

DocAttribute ==
    Element("attribute", NoAttributes, <<
        TextElement("name", <<"i", "d">>),
        TextElement("dataType", <<"H", "L", "A", "t", "o", "k", "e", "n">>),
        TextElement("updateType", <<"N", "A">>),
        TextElement("ownership", <<"N", "o", "T", "r", "a", "n", "s", "f", "e", "r">>),
        TextElement("sharing", <<"N", "e", "i", "t", "h", "e", "r">>),
        Element("dimensions", NoAttributes, <<>>),
        TextElement("transportation", <<"H", "L", "A", "r", "e", "l", "i", "a", "b", "l", "e">>),
        TextElement("order", <<"T", "i", "m", "e", "S", "t", "a", "m", "p">>)
    >>)

DocObjects(D) ==
    Element("objects", NoAttributes, <<
        Element("objectClass", NoAttributes,
            (IF <<"with", "no class name">> \in D THEN <<>>
             ELSE <<TextElement("name", <<"H", "L", "A", "o", "b", "j", "e", "c", "t", "R", "o", "o", "t">>)>>)
            \o <<TextElement("sharing", <<"N", "e", "i", "t", "h", "e", "r">>)>>
            \o (IF <<"with", "attribute">> \in D THEN <<DocAttribute>> ELSE <<>>))
    >>)

DocInteractions ==
    Element("interactions", NoAttributes, <<
        Element("interactionClass", NoAttributes, <<
            TextElement("name", <<"H", "L", "A", "i", "n", "t", "e", "r", "a", "c", "t", "i", "o", "n", "R", "o", "o", "t">>),
            TextElement("sharing", <<"N", "e", "i", "t", "h", "e", "r">>),
            TextElement("transportation", <<"H", "L", "A", "r", "e", "l", "i", "a", "b", "l", "e">>),
            TextElement("order", <<"R", "e", "c", "e", "i", "v", "e">>)
        >>)
    >>)

DocTransportation(reliable) ==
    Element("transportation", NoAttributes, <<
        TextElement("name", <<"H", "L", "A", "r", "e", "l", "i", "a", "b", "l", "e">>),
        TextElement("reliable", reliable)
    >>)

DocTransportations(D) ==
    Element("transportations", NoAttributes,
        (IF <<"with", "transportation">> \in D
         THEN <<DocTransportation(<<"Y", "e", "s">>)>> ELSE <<>>)
        \o (IF <<"with", "reliable Maybe">> \in D
            THEN <<DocTransportation(<<"M", "a", "y", "b", "e">>)>> ELSE <<>>))

DocSwitches(D) ==
    Element("switches",
        [a \in {b \in SwitchAttributes : <<"unset", b>> \notin D} |->
            IF a = "automatic_resign_action" THEN <<"N", "o", "A", "c", "t", "i", "o", "n">>
            ELSE IF a = "auto_provide" THEN <<"t", "r", "u", "e">>
            ELSE IF a = "service_reporting" /\ <<"with", "malformed switch">> \in D
            THEN <<"y", "e", "s">>
            ELSE <<"f", "a", "l", "s", "e">>],
        <<>>)

DocDataTypes ==
    Element("dataTypes", NoAttributes, <<
        Element("basicDataRepresentations", NoAttributes, <<>>),
        Element("simpleDataTypes", NoAttributes, <<>>),
        Element("enumeratedDataTypes", NoAttributes, <<>>),
        Element("arrayDataTypes", NoAttributes, <<>>),
        Element("fixedRecordDataTypes", NoAttributes, <<>>),
        Element("variantRecordDataTypes", NoAttributes, <<>>)
    >>)

\* The sections of document D in schema order; the empty name marks a
\* section the document does not hold
DocSections(D) == <<
    IF <<"drop", "modelIdentification">> \in D THEN TextNode(<<>>)
    ELSE DocModelIdentification(D),
    IF <<"add", "serviceUtilization">> \in D \/ <<"with", "no disconnect">> \in D
    THEN DocServiceUtilization(D) ELSE TextNode(<<>>),
    IF <<"drop", "objects">> \in D THEN TextNode(<<>>) ELSE DocObjects(D),
    IF <<"drop", "interactions">> \in D THEN TextNode(<<>>) ELSE DocInteractions,
    IF <<"drop", "dimensions">> \in D THEN TextNode(<<>>)
    ELSE Element("dimensions", NoAttributes, <<>>),
    IF <<"add", "time">> \in D
    THEN Element("time", NoAttributes, <<>>) ELSE TextNode(<<>>),
    IF <<"add", "tags">> \in D
    THEN Element("tags", NoAttributes, <<>>) ELSE TextNode(<<>>),
    IF <<"add", "synchronizations">> \in D
    THEN Element("synchronizations", NoAttributes, <<>>) ELSE TextNode(<<>>),
    IF <<"drop", "transportations">> \in D THEN TextNode(<<>>)
    ELSE DocTransportations(D),
    IF <<"drop", "switches">> \in D THEN TextNode(<<>>) ELSE DocSwitches(D),
    IF <<"add", "updateRates">> \in D
    THEN Element("updateRates", NoAttributes, <<>>) ELSE TextNode(<<>>),
    IF <<"drop", "dataTypes">> \in D THEN TextNode(<<>>) ELSE DocDataTypes,
    IF <<"add", "notes">> \in D
    THEN Element("notes", NoAttributes, <<>>) ELSE TextNode(<<>>)
>>

Doc(D) ==
    Element("objectModel", NoAttributes,
        SelectSeq(DocSections(D), LAMBDA c : c.kind = "Element"))

Minimal == Doc({})

\* e with the children of every element in the reverse order
RECURSIVE Mirror(_)
Mirror(e) ==
    [e EXCEPT !.children =
        [k \in 1..Len(e.children) |-> Mirror(e.children[Len(e.children) + 1 - k])]]

\* xmltree::ParseError: what Element::parse fails with on a stream that is
\* not well-formed XML
ParseErrors == {"MalformedXml", "CannotParse"}

\* What parse() may be handed: a stream that is well-formed XML for the
\* tree, in schema order or in the reverse order, or one the tree parser
\* rejects
Streams ==
    {[wellformed |-> TRUE, tree |-> Doc(D), error |-> "none"] : D \in DeviationSets}
    \cup {[wellformed |-> TRUE, tree |-> Mirror(Doc(D)), error |-> "none"] :
            D \in DeviationSets}
    \cup {[wellformed |-> FALSE, tree |-> Doc(D), error |-> err] :
            D \in DeviationSets, err \in ParseErrors}

(***************************************************************************)
(* parse(): one run over one input stream                                  *)
(***************************************************************************)
NoReturn == [kind |-> "none"]
ReturnedOk(x) == [kind |-> "Ok", val |-> x]
ReturnedErr(x) == [kind |-> "Err", err |-> x]
Panicked(m) == [kind |-> "panic", msg |-> m]

\* The unit value ()
Unit == <<>>

\* Values of the variables a run does not use
Idle == TextNode(<<>>)
NoCall == [fn |-> "", name |-> ""]

Init ==
    /\ pc = "Element::parse"
    /\ input \in Streams
    /\ root = None
    /\ fom = <<>>
    /\ stdout = <<>>
    /\ ret = NoReturn
    /\ arg = Idle
    /\ call = NoCall

\* Element::parse(r)? with every ParseError returned as CannotParse
ElementParse_CannotParse ==
    /\ pc = "Element::parse"
    /\ IF input.wellformed
       THEN /\ root' = Some(input.tree)
            /\ pc' = "model_identification"
            /\ ret' = ret
       ELSE /\ root' = root
            /\ pc' = "done"
            /\ ret' = ReturnedErr("CannotParse")
    /\ UNCHANGED <<input, fom, stdout, arg, call>>

\* let fom_as_xml = Element::parse(r)?;
ElementParse ==
    /\ pc = "Element::parse"
    /\ IF input.wellformed
       THEN /\ root' = Some(input.tree)
            /\ pc' = "model_identification"
            /\ ret' = ret
       ELSE /\ root' = root
            /\ pc' = "done"
            /\ ret' = ReturnedErr(input.error)
    /\ UNCHANGED <<input, fom, stdout, arg, call>>

\* A field whose panic is dropped: the struct goes on without the field
Field_skipped_on_panic(name, outcome, next) ==
    /\ pc = name
    /\ fom' = IF outcome.ok THEN fom @@ (name :> outcome.val) ELSE fom
    /\ pc' = next
    /\ ret' = ret
    /\ UNCHANGED <<input, root, stdout, arg, call>>

\* One field of the struct expression of ObjectModelType::from: its value
\* joins the fields built so far, or its panic unwinds parse() and drops them
Field(name, outcome, next) ==
    /\ pc = name
    /\ IF outcome.ok
       THEN /\ fom' = fom @@ (name :> outcome.val)
            /\ pc' = next
            /\ ret' = ret
       ELSE /\ fom' = <<>>
            /\ pc' = "panicked"
            /\ ret' = Panicked(outcome.msg)
    /\ UNCHANGED <<input, root, stdout, arg, call>>

FromModelIdentification ==
    Field("model_identification", model_identification(root.v), "service_utilization")
FromServiceUtilization ==
    Field("service_utilization", service_utilization(root.v), "objects")
FromObjects == Field("objects", objects(root.v), "interactions")
FromInteractions == Field("interactions", interactions(root.v), "dimensions")
FromDimensions == Field("dimensions", dimensions(root.v), "time")
FromTime == Field("time", time(root.v), "tags")
FromTags == Field("tags", tags(root.v), "synchronizations")
FromSynchronizations ==
    Field("synchronizations", synchronizations(root.v), "transportations")
FromTransportations == Field("transportations", transportations(root.v), "switches")
FromSwitches == Field("switches", switches(root.v), "update_rates")
FromUpdateRates == Field("update_rates", update_rates(root.v), "data_types")
FromDataTypes == Field("data_types", data_types(root.v), "notes")
FromNotes == Field("notes", notes(root.v), "println")

\* format!("{:?}", s) of a String: the text between double quotes
debug_format(s) == <<"\"">> \o s \o <<"\"">>

\* println!("{:?}", fom.model_identification.name);
Println ==
    /\ pc = "println"
    /\ stdout' = Append(stdout, debug_format(fom.model_identification.name))
    /\ pc' = "return"
    /\ UNCHANGED <<input, root, fom, ret, arg, call>>

\* Ok(()): the unit is returned, and the local fom is dropped
ReturnOk ==
    /\ pc = "return"
    /\ ret' = ReturnedOk(Unit)
    /\ pc' = "done"
    /\ fom' = <<>>
    /\ UNCHANGED <<input, root, stdout, arg, call>>

Next ==
    \/ ElementParse
    \/ FromModelIdentification
    \/ FromServiceUtilization
    \/ FromObjects
    \/ FromInteractions
    \/ FromDimensions
    \/ FromTime
    \/ FromTags
    \/ FromSynchronizations
    \/ FromTransportations
    \/ FromSwitches
    \/ FromUpdateRates
    \/ FromDataTypes
    \/ FromNotes
    \/ Println
    \/ ReturnOk

Spec == Init /\ [][Next]_vars

(***************************************************************************)
(* Unit runs: one converter or extractor applied to one element, as the    *)
(* tests of mod tests do.                                                  *)
(***************************************************************************)
MaxPad == 1
MaxChildren == 3

\* The sequences over A of length at most n
SeqsUpTo(A, n) == UNION {[1..k -> A] : k \in 0..n}

\* Whitespace that may surround the text of an element
Pads == SeqsUpTo({" ", "\n"}, MaxPad)

\* The tokens of the vocabularies' tables
KnownTokens == {
    <<"F", "O", "M">>, <<"S", "O", "M">>,
    <<"U", "n", "c", "l", "a", "s", "s", "i", "f", "i", "e", "d">>, <<"C", "o", "n", "f", "i", "d", "e", "n", "t", "i", "a", "l">>, <<"S", "e", "c", "r", "e", "t">>, <<"T", "o", "p", " ", "S", "e", "c", "r", "e", "t">>,
    <<"A", "n", "a", "l", "y", "s", "i", "s">>, <<"T", "r", "a", "i", "n", "i", "n", "g">>, <<"T", "e", "s", "t", " ", "a", "n", "d", " ", "E", "v", "a", "l", "u", "a", "t", "i", "o", "n">>, <<"E", "n", "g", "i", "n", "e", "e", "r", "i", "n", "g">>,
    <<"A", "c", "q", "u", "i", "s", "i", "t", "i", "o", "n">>,
    <<"P", "r", "i", "m", "a", "r", "y", " ", "a", "u", "t", "h", "o", "r">>, <<"C", "o", "n", "t", "r", "i", "b", "u", "t", "o", "r">>, <<"P", "r", "o", "p", "o", "n", "e", "n", "t">>, <<"S", "p", "o", "n", "s", "o", "r">>,
    <<"R", "e", "l", "e", "a", "s", "e", " ", "a", "u", "t", "h", "o", "r", "i", "t", "y">>, <<"T", "e", "c", "h", "n", "i", "c", "a", "l", " ", "P", "O", "C">>,
    <<"P", "u", "b", "l", "i", "s", "h">>, <<"S", "u", "b", "s", "c", "r", "i", "b", "e">>, <<"P", "u", "b", "l", "i", "s", "h", "S", "u", "b", "s", "c", "r", "i", "b", "e">>, <<"N", "e", "i", "t", "h", "e", "r">>,
    <<"S", "t", "a", "t", "i", "c">>, <<"P", "e", "r", "i", "o", "d", "i", "c">>, <<"C", "o", "n", "d", "i", "t", "i", "o", "n", "a", "l">>, <<"N", "A">>,
    <<"D", "i", "v", "e", "s", "t">>, <<"A", "c", "q", "u", "i", "r", "e">>, <<"D", "i", "v", "e", "s", "t", "A", "c", "q", "u", "i", "r", "e">>, <<"N", "o", "T", "r", "a", "n", "s", "f", "e", "r">>,
    <<"R", "e", "c", "e", "i", "v", "e">>, <<"T", "i", "m", "e", "S", "t", "a", "m", "p">>,
    <<"R", "e", "g", "i", "s", "t", "e", "r">>, <<"A", "c", "h", "i", "e", "v", "e">>, <<"R", "e", "g", "i", "s", "t", "e", "r", "A", "c", "h", "i", "e", "v", "e">>, <<"N", "o", "S", "y", "n", "c", "h">>,
    <<"Y", "e", "s">>, <<"N", "o">>,
    <<"B", "i", "g">>, <<"L", "i", "t", "t", "l", "e">>,
    <<"H", "L", "A", "f", "i", "x", "e", "d", "A", "r", "r", "a", "y">>, <<"H", "L", "A", "v", "a", "r", "i", "a", "b", "l", "e", "A", "r", "r", "a", "y">>, <<"H", "L", "A", "f", "i", "x", "e", "d", "R", "e", "c", "o", "r", "d">>,
    <<"H", "L", "A", "v", "a", "r", "i", "a", "n", "t", "R", "e", "c", "o", "r", "d">>}

\* Tokens of no table: other words, other letter case, numbers, no text
OtherTokens == {
    <<>>, <<"M", "a", "y", "b", "e">>, <<"X", "O", "M">>, <<"R", "e", "s", "t", "r", "i", "c", "t", "e", "d">>, <<"F", "o", "r", " ", "O", "f", "f", "i", "c", "i", "a", "l", " ", "U", "s", "e">>,
    <<"H", "L", "A", "o", "t", "h", "e", "r">>, <<"f", "o", "m">>, <<"y", "e", "s">>, <<"R", "E", "C", "E", "I", "V", "E">>, <<"b", "i", "g">>, <<"n", "a">>,
    <<"0">>, <<"8">>, <<"2", "5", "5">>, <<"2", "5", "6">>, <<"-", "1">>, <<"+", "7">>, <<"8", " ", "b", "i", "t", "s">>, <<"0", "0", "7">>, <<"-", "0">>, <<"2", "5", ".", "0">>,
    <<"p", "u", "b", "l", "i", "s", "h">>, <<"s", "e", "c", "r", "e", "t">>, <<"t", "r", "a", "i", "n", "i", "n", "g">>, <<"s", "p", "o", "n", "s", "o", "r">>, <<"d", "i", "v", "e", "s", "t">>, <<"r", "e", "g", "i", "s", "t", "e", "r">>,
    <<"h", "l", "a", "f", "i", "x", "e", "d", "a", "r", "r", "a", "y">>, <<"h", "l", "a", "f", "i", "x", "e", "d", "r", "e", "c", "o", "r", "d">>, <<"h", "l", "a", "v", "a", "r", "i", "a", "n", "t", "r", "e", "c", "o", "r", "d">>}

Tokens == KnownTokens \cup OtherTokens

\* An element whose text is a token, bare or padded, or that has no text
TextElements ==
    {TextElement("value", l \o t \o r) : l \in Pads, t \in Tokens, r \in Pads}
    \cup {Element("value", NoAttributes, <<>>)}

\* A node as in the tests: children named child, other children, text
RootNodes ==
    {Element("root", NoAttributes, cs) :
        cs \in SeqsUpTo({TextElement("child", <<"t", "e", "x", "t">>),
                         TextElement("child", <<" ", "m", "o", "r", "e", "\n">>),
                         TextElement("other", <<"e", "l", "s", "e">>),
                         TextNode(<<"l", "o", "o", "s", "e">>)}, MaxChildren)}

\* e without its child elements named n
without_child(e, n) ==
    Element(e.name, e.attributes,
        SelectSeq(e.children, LAMBDA c : ~(c.kind = "Element" /\ c.name = n)))

\* e without its attribute n
without_attribute(e, n) ==
    Element(e.name, [a \in DOMAIN e.attributes \ {n} |-> e.attributes[a]],
        e.children)

\* The mandatory child elements of the converters' nodes, in field order
Mandatory == [
    ModelIdentificationType_from |->
        <<"name", "type", "version", "modificationDate",
          "securityClassification", "description">>,
    ServiceUtiliizationType_from |-> <<"connect", "disconnect">>,
    ObjectsType_from |-> <<"objectClass">>,
    ObjectClassType_from |-> <<"name", "sharing">>,
    AttributeType_from |->
        <<"name", "dataType", "updateType", "ownership", "sharing",
          "transportation", "order">>,
    InteractionsType_from |-> <<"interactionClass">>,
    InteractionClassType_from |-> <<"name", "sharing", "transportation", "order">>,
    TransportationType_from |-> <<"name", "reliable">>,
    DataTypesType_from |->
        <<"basicDataRepresentations", "simpleDataTypes", "enumeratedDataTypes",
          "arrayDataTypes", "fixedRecordDataTypes", "variantRecordDataTypes">>]

\* A node each of these converters accepts
Sample == [
    ModelIdentificationType_from |-> DocModelIdentification({}),
    ServiceUtiliizationType_from |-> DocServiceUtilization({}),
    ObjectsType_from |-> DocObjects({}),
    ObjectClassType_from |-> get_child(DocObjects({}), "objectClass"),
    AttributeType_from |-> DocAttribute,
    InteractionsType_from |-> DocInteractions,
    InteractionClassType_from |-> get_child(DocInteractions, "interactionClass"),
    TransportationType_from |-> DocTransportation(<<"Y", "e", "s">>),
    DataTypesType_from |-> DocDataTypes]

\* The samples, whole and with one mandatory child removed
SampleNodes ==
    {Sample[c] : c \in DOMAIN Sample}
    \cup UNION {{without_child(Sample[c], Mandatory[c][i]) :
                    i \in DOMAIN Mandatory[c]} : c \in DOMAIN Sample}

\* Texts a switch attribute may hold: the literals, other spellings of them,
\* resign actions, no text
SwitchTexts == {
    <<"t", "r", "u", "e">>, <<"f", "a", "l", "s", "e">>, <<"T", "R", "U", "E">>, <<" ", "t", "r", "u", "e">>, <<"y", "e", "s">>, <<"1">>, <<>>,
    <<"D", "e", "l", "e", "t", "e", "O", "b", "j", "e", "c", "t", "s">>, <<"n", "o", "a", "c", "t", "i", "o", "n">>,
    <<"f", "a", "l", "s", "e", " ">>, <<" ", "N", "o", "A", "c", "t", "i", "o", "n">>, <<"N", "o", "A", "c", "t", "i", "o", "n">>}

\* Element e with its attribute a set to text t
SwitchesWith(e, a, t) ==
    Element(e.name,
        [b \in DOMAIN e.attributes \cup {a} |-> IF b = a THEN t ELSE e.attributes[b]],
        e.children)

\* A switches element that sets every attribute, or every attribute but one
SwitchesNodes ==
    {DocSwitches({})} \cup {DocSwitches({<<"unset", a>>}) : a \in SwitchAttributes}
    \cup {SwitchesWith(DocSwitches(D), a, t) :
            D \in {{}} \cup {{<<"unset", b>>} : b \in SwitchAttributes},
            a \in SwitchAttributes, t \in SwitchTexts}

\* An attribute as DocAttribute, of another name and without dimensions
DocAttributeNamed(n) ==
    Element("attribute", NoAttributes, <<
        TextElement("name", n),
        TextElement("dataType", <<"H", "L", "A", "t", "o", "k", "e", "n">>),
        TextElement("updateType", <<"S", "t", "a", "t", "i", "c">>),
        TextElement("ownership", <<"D", "i", "v", "e", "s", "t">>),
        TextElement("sharing", <<"P", "u", "b", "l", "i", "s", "h">>),
        TextElement("transportation", <<"H", "L", "A", "b", "e", "s", "t", "E", "f", "f", "o", "r", "t">>),
        TextElement("order", <<"R", "e", "c", "e", "i", "v", "e">>)
    >>)

\* Object classes: the name and the sharing, then attributes and other
\* children in any order
ObjectClassNodes ==
    {Element("objectClass", NoAttributes,
        <<TextElement("name", <<"V", "e", "h", "i", "c", "l", "e">>), TextElement("sharing", <<"P", "u", "b", "l", "i", "s", "h">>)>> \o cs) :
        cs \in SeqsUpTo({DocAttribute, DocAttributeNamed(<<" ", "s", "p", "e", "e", "d", " ">>),
                         TextElement("semantics", <<"m", "o", "v", "e", "s">>)}, MaxChildren)}

\* An object class of that name with those attributes and child classes
DocObjectClass(n, attributes, classes) ==
    Element("objectClass", NoAttributes,
        <<TextElement("name", n), TextElement("sharing", <<"P", "u", "b", "l", "i", "s", "h">>)>>
        \o attributes \o classes)

\* Object class trees of depth up to 3: a root, under it up to MaxNested
\* classes, each a leaf or a class with up to MaxNested leaves of its own
MaxNested == 2

LeafObjectClasses ==
    {DocObjectClass(<<"T", "a", "n", "k">>, <<DocAttributeNamed(<<"a", "r", "m", "o", "r">>)>>, <<>>),
     DocObjectClass(<<" ", "J", "e", "e", "p", " ">>, <<>>, <<>>)}

MidObjectClasses ==
    {DocObjectClass(<<"V", "e", "h", "i", "c", "l", "e">>, <<DocAttribute>>, cs) :
        cs \in SeqsUpTo(LeafObjectClasses, MaxNested)}

NestedObjectClassNodes ==
    {DocObjectClass(<<"H", "L", "A", "o", "b", "j", "e", "c", "t", "R", "o", "o", "t">>, <<DocAttributeNamed(<<"i", "d">>)>>, cs) :
        cs \in SeqsUpTo(MidObjectClasses \cup LeafObjectClasses, MaxNested)}

\* A parameter of that name
DocParameter(n) ==
    Element("parameter", NoAttributes,
        <<TextElement("name", n), TextElement("dataType", <<"H", "L", "A", "t", "o", "k", "e", "n">>)>>)

\* An interaction class with that name, sharing, transportation, order,
\* parameters and child classes
DocInteractionClass(n, sharing, transportation, order, parameters, classes) ==
    Element("interactionClass", NoAttributes,
        <<TextElement("name", n), TextElement("sharing", sharing),
          TextElement("transportation", transportation),
          TextElement("order", order)>>
        \o parameters \o classes)

\* Interaction class trees of depth up to 3, built as the object class trees
LeafInteractionClasses ==
    {DocInteractionClass(<<"F", "i", "r", "e">>, <<"P", "u", "b", "l", "i", "s", "h">>, <<"H", "L", "A", "b", "e", "s", "t", "E", "f", "f", "o", "r", "t">>, <<"R", "e", "c", "e", "i", "v", "e">>,
         <<DocParameter(<<"m", "u", "n", "i", "t", "i", "o", "n">>), DocParameter(<<" ", "r", "a", "n", "g", "e", " ">>)>>, <<>>),
     DocInteractionClass(<<" ", "H", "i", "t", " ">>, <<"S", "u", "b", "s", "c", "r", "i", "b", "e">>, <<"H", "L", "A", "r", "e", "l", "i", "a", "b", "l", "e">>, <<"T", "i", "m", "e", "S", "t", "a", "m", "p">>,
         <<>>, <<>>)}

MidInteractionClasses ==
    {DocInteractionClass(<<"W", "e", "a", "p", "o", "n">>, <<"P", "u", "b", "l", "i", "s", "h", "S", "u", "b", "s", "c", "r", "i", "b", "e">>, <<" ", "H", "L", "A", "r", "e", "l", "i", "a", "b", "l", "e", "\n">>,
         <<"R", "e", "c", "e", "i", "v", "e">>, <<DocParameter(<<"s", "h", "o", "o", "t", "e", "r">>)>>, cs) :
        cs \in SeqsUpTo(LeafInteractionClasses, MaxNested)}

NestedInteractionClassNodes ==
    {DocInteractionClass(<<"H", "L", "A", "i", "n", "t", "e", "r", "a", "c", "t", "i", "o", "n", "R", "o", "o", "t">>, <<"N", "e", "i", "t", "h", "e", "r">>, <<"H", "L", "A", "r", "e", "l", "i", "a", "b", "l", "e">>,
         <<"T", "i", "m", "e", "S", "t", "a", "m", "p">>, <<>>, cs) :
        cs \in SeqsUpTo(MidInteractionClasses \cup LeafInteractionClasses, MaxNested)}

\* Names a reference may hold: a name some catalog could define, names no
\* catalog defines, a padded name, no name
ReferenceTexts == {<<"H", "L", "A", "t", "o", "k", "e", "n">>, <<"N", "o", "S", "u", "c", "h", "N", "a", "m", "e">>, <<" ", "P", "a", "d", "d", "e", "d", "\n">>, <<>>}

\* The dimensions child of an attribute: none, empty, one or two references
DimensionLists ==
    {<<>>, <<Element("dimensions", NoAttributes, <<>>)>>}
    \cup {<<Element("dimensions", NoAttributes,
              [k \in DOMAIN ts |-> TextElement("dimension", ts[k])])>> :
            ts \in [1..1 -> ReferenceTexts] \cup [1..2 -> ReferenceTexts]}

\* Attributes whose references hold those names
ReferencingAttributes ==
    {Element("attribute", NoAttributes,
        <<TextElement("name", <<"i", "d">>), TextElement("dataType", d),
          TextElement("updateType", <<"N", "A">>), TextElement("ownership", <<"N", "o", "T", "r", "a", "n", "s", "f", "e", "r">>),
          TextElement("sharing", <<"N", "e", "i", "t", "h", "e", "r">>)>>
        \o ds
        \o <<TextElement("transportation", t), TextElement("order", <<"R", "e", "c", "e", "i", "v", "e">>)>>) :
        d \in ReferenceTexts, t \in ReferenceTexts, ds \in DimensionLists}

\* Interaction classes whose dimensions child holds those references
DimensionedInteractionClasses ==
    {Element("interactionClass", NoAttributes,
        <<TextElement("name", <<"F", "i", "r", "e">>), TextElement("sharing", <<"P", "u", "b", "l", "i", "s", "h">>)>>
        \o ds
        \o <<TextElement("transportation", <<"H", "L", "A", "r", "e", "l", "i", "a", "b", "l", "e">>),
             TextElement("order", <<"R", "e", "c", "e", "i", "v", "e">>)>>) :
        ds \in DimensionLists}

\* Texts the type attribute of a glyph may hold
GlyphTexts ==
    {<<"B", "I", "T", "M", "A", "P">>, <<"J", "P", "G">>, <<"G", "I", "F">>, <<"P", "N", "G">>, <<"T", "I", "F", "F">>, <<"b", "i", "t", "m", "a", "p">>, <<"J", "p", "g">>, <<"g", "i", "f">>,
     <<"t", "i", "F", "F">>, <<"S", "V", "G">>, <<" ", "P", "N", "G">>, <<>>}

\* A glyph whose type attribute holds that text
GlyphNodes ==
    {Element("glyph",
        [a \in {"type", "height", "width", "alt"} |->
            IF a = "type" THEN t ELSE IF a = "alt" THEN <<"l", "o", "g", "o">> ELSE <<"3", "2">>],
        <<>>) : t \in GlyphTexts}

\* Texts the height and the width of a glyph may hold
ScalarTexts ==
    {<<"3", "2">>, <<"0">>, <<"6", "5", "5", "3", "5">>, <<"6", "5", "5", "3", "6">>, <<"-", "1">>, <<"+", "7">>, <<"t", "a", "l", "l">>, <<" ", "3", "2">>, <<"3", "2", " ">>, <<>>}

\* A PNG glyph of that height and width
SizedGlyphNodes ==
    {Element("glyph",
        [a \in {"type", "height", "width", "alt"} |->
            IF a = "type" THEN <<"P", "N", "G">> ELSE IF a = "alt" THEN <<"l", "o", "g", "o">>
            ELSE IF a = "height" THEN h ELSE w],
        <<>>) : h \in ScalarTexts, w \in ScalarTexts}

\* How many kinds of child a model identification may lack at once
MaxAbsent == 2

\* A model identification holding a child of every kind
FullModelIdentification ==
    Element("modelIdentification", NoAttributes, <<
        TextElement("name", <<"r", "p", "r">>),
        TextElement("type", <<"F", "O", "M">>),
        TextElement("version", <<"2">>),
        TextElement("modificationDate", <<"2", "0", "1", "5">>),
        TextElement("securityClassification", <<"U", "n", "c", "l", "a", "s", "s", "i", "f", "i", "e", "d">>),
        TextElement("releaseRestriction", <<"n", "o", "n", "e">>),
        TextElement("purpose", <<"t", "e", "s", "t">>),
        TextElement("applicationDomain", <<"T", "r", "a", "i", "n", "i", "n", "g">>),
        TextElement("description", <<"b", "a", "s", "e">>),
        TextElement("useLimitation", <<"n", "o", "n", "e">>),
        TextElement("useHistory", <<"f", "i", "r", "s", "t">>),
        Element("keyword", NoAttributes, <<TextElement("keywordValue", <<"h", "l", "a">>)>>),
        Element("poc", NoAttributes, <<TextElement("pocType", <<"S", "p", "o", "n", "s", "o", "r">>)>>),
        Element("reference", NoAttributes,
            <<TextElement("type", <<"t", "e", "x", "t">>), TextElement("identification", <<"d", "o", "c">>)>>),
        TextElement("other", <<"m", "o", "r", "e">>),
        Element("glyph",
            [a \in {"type", "height", "width", "alt"} |->
                IF a = "type" THEN <<"P", "N", "G">> ELSE IF a = "alt" THEN <<"l", "o", "g", "o">> ELSE <<"3", "2">>],
            <<>>)
    >>)

ModelIdentificationChildren ==
    {FullModelIdentification.children[i].name :
        i \in DOMAIN FullModelIdentification.children}

\* The full model identification without some kinds of child
ModelIdentificationNodes ==
    {Element("modelIdentification", NoAttributes,
        SelectSeq(FullModelIdentification.children, LAMBDA c : c.name \notin A)) :
        A \in SubsetsUpTo(ModelIdentificationChildren, MaxAbsent)}

\* A service of serviceUtilization whose attributes hold those texts
ServiceInfoNodes ==
    {Element("connect",
        [a \in {"section", "isCallback", "isUsed"} |->
            IF a = "section" THEN s ELSE IF a = "isCallback" THEN c ELSE u],
        <<>>) :
        s \in {<<"4", ".", "2">>, <<" ", "4", ".", "2", " ">>},
        c \in {<<"t", "r", "u", "e">>, <<"f", "a", "l", "s", "e">>, <<" ", "t", "r", "u", "e">>, <<"f", "a", "l", "s", "e", " ">>},
        u \in {<<"t", "r", "u", "e">>, <<"f", "a", "l", "s", "e">>, <<" ", "t", "r", "u", "e">>, <<"f", "a", "l", "s", "e", " ">>}}

UnitInputs ==
    TextElements \cup RootNodes \cup SampleNodes \cup SwitchesNodes
    \cup ObjectClassNodes \cup NestedObjectClassNodes
    \cup NestedInteractionClassNodes \cup ReferencingAttributes \cup GlyphNodes
    \cup DimensionedInteractionClasses \cup SizedGlyphNodes
    \cup ModelIdentificationNodes \cup ServiceInfoNodes

\* The names an extractor is asked for
FieldNames == {"child", "other", "absent"}

UnitInit ==
    /\ pc = "ready"
    /\ arg \in UnitInputs
    /\ call = NoCall
    /\ ret = NoReturn
    /\ input = [wellformed |-> TRUE, tree |-> Idle, error |-> "none"]
    /\ root = None
    /\ fom = <<>>
    /\ stdout = <<>>

\* Function fn, asked for name, has run on arg to this outcome
Apply(fn, name, outcome) ==
    /\ pc = "ready"
    /\ call' = [fn |-> fn, name |-> name]
    /\ ret' = IF outcome.ok THEN ReturnedOk(outcome.val) ELSE Panicked(outcome.msg)
    /\ pc' = "applied"
    /\ UNCHANGED <<input, root, fom, stdout, arg>>

ApplyGetElementText == Apply("get_element_text", "", Ok(get_element_text(arg)))
ApplyGetTextOfChildElement ==
    \E n \in FieldNames :
        Apply("get_text_of_child_element", n, Ok(get_text_of_child_element(arg, n)))
ApplyGetTextOfChildElementOrPanic ==
    \E n \in FieldNames :
        Apply("get_text_of_child_element_or_panic", n,
              get_text_of_child_element_or_panic(arg, n, <<"panic message">>))
ApplyGetTextOfChildElements ==
    \E n \in FieldNames :
        Apply("get_text_of_child_elements", n, Ok(get_text_of_child_elements(arg, n)))
ApplyGetTextOfAttribute ==
    \E n \in SwitchAttributes :
        Apply("get_text_of_attribute", n, Ok(get_text_of_attribute(arg, n)))

ApplyModelType == Apply("ModelType_from", "", ModelType_from(arg))
ApplySecurityClassificationType ==
    Apply("SecurityClassificationType_from", "", SecurityClassificationType_from(arg))
ApplyApplicationDomainType ==
    Apply("ApplicationDomainType_from", "", ApplicationDomainType_from(arg))
ApplyPocTypeType == Apply("PocTypeType_from", "", PocTypeType_from(arg))
ApplySharingType == Apply("SharingType_from", "", SharingType_from(arg))
ApplyReferenceType == Apply("ReferenceType_from", "", ReferenceType_from(arg))
ApplyUpdateType == Apply("UpdateType_from", "", UpdateType_from(arg))
ApplyOwnershipType == Apply("OwnershipType_from", "", OwnershipType_from(arg))
ApplyOrderType == Apply("OrderType_from", "", OrderType_from(arg))
ApplyCapabilityType == Apply("CapabilityType_from", "", CapabilityType_from(arg))
ApplyReliableType == Apply("ReliableType_from", "", ReliableType_from(arg))
ApplySizeType == Apply("SizeType_from", "", SizeType_from(arg))
ApplyEndianType == Apply("EndianType_from", "", EndianType_from(arg))
ApplyArrayDataTypeEncodingType ==
    Apply("ArrayDataTypeEncodingType_from", "", ArrayDataTypeEncodingType_from(arg))
ApplyFixedRecordEncodingType ==
    Apply("FixedRecordEncodingType_from", "", FixedRecordEncodingType_from(arg))
ApplyVariantRecordEncodingType ==
    Apply("VariantRecordEncodingType_from", "", VariantRecordEncodingType_from(arg))

ApplyModelIdentificationType ==
    Apply("ModelIdentificationType_from", "", ModelIdentificationType_from(arg))
ApplyServiceUtiliizationType ==
    Apply("ServiceUtiliizationType_from", "", ServiceUtiliizationType_from(arg))
ApplyObjectsType == Apply("ObjectsType_from", "", ObjectsType_from(arg))
ApplyObjectClassType == Apply("ObjectClassType_from", "", ObjectClassType_from(arg))
ApplyAttributeType == Apply("AttributeType_from", "", AttributeType_from(arg))
ApplyInteractionsType == Apply("InteractionsType_from", "", InteractionsType_from(arg))
ApplyInteractionClassType ==
    Apply("InteractionClassType_from", "", InteractionClassType_from(arg))
ApplyTransportationType ==
    Apply("TransportationType_from", "", TransportationType_from(arg))
ApplySwitchesType == Apply("SwitchesType_from", "", SwitchesType_from(arg))
ApplyDataTypesType == Apply("DataTypesType_from", "", DataTypesType_from(arg))

\* T::from(attribute) of get_attribute_as_type, on an attribute arg holds
ApplySwitchType ==
    \E a \in BooleanSwitchAttributes :
        /\ a \in DOMAIN arg.attributes
        /\ Apply("SwitchType_from", a, SwitchType_from(arg.attributes[a]))
ApplyResignSwitchType ==
    /\ "automatic_resign_action" \in DOMAIN arg.attributes
    /\ Apply("ResignSwitchType_from", "automatic_resign_action",
             ResignSwitchType_from(arg.attributes["automatic_resign_action"]))
ApplyServiceInfoType == Apply("ServiceInfoType_from", "", ServiceInfoType_from(arg))
ApplyGlyphType == Apply("GlyphType_from", "", GlyphType_from(arg))
ApplyGlyphTypeType ==
    /\ "type" \in DOMAIN arg.attributes
    /\ Apply("GlyphTypeType_from", "type", GlyphTypeType_from(arg.attributes["type"]))

UnitNext ==
    \/ ApplyGetElementText
    \/ ApplyGetTextOfChildElement
    \/ ApplyGetTextOfChildElementOrPanic
    \/ ApplyGetTextOfChildElements
    \/ ApplyGetTextOfAttribute
    \/ ApplyModelType
    \/ ApplySecurityClassificationType
    \/ ApplyApplicationDomainType
    \/ ApplyPocTypeType
    \/ ApplySharingType
    \/ ApplyReferenceType
    \/ ApplyUpdateType
    \/ ApplyOwnershipType
    \/ ApplyOrderType
    \/ ApplyCapabilityType
    \/ ApplyReliableType
    \/ ApplySizeType
    \/ ApplyEndianType
    \/ ApplyArrayDataTypeEncodingType
    \/ ApplyFixedRecordEncodingType
    \/ ApplyVariantRecordEncodingType
    \/ ApplyModelIdentificationType
    \/ ApplyServiceUtiliizationType
    \/ ApplyObjectsType
    \/ ApplyObjectClassType
    \/ ApplyAttributeType
    \/ ApplyInteractionsType
    \/ ApplyInteractionClassType
    \/ ApplyTransportationType
    \/ ApplySwitchesType
    \/ ApplyDataTypesType
    \/ ApplySwitchType
    \/ ApplyGlyphTypeType
    \/ ApplyGlyphType
    \/ ApplyServiceInfoType
    \/ ApplyResignSwitchType

SpecUnit == UnitInit /\ [][UnitNext]_vars

(***************************************************************************)
(* The descent of a class converter, one call at a time: the call stack of *)
(* ObjectClassType::from or InteractionClassType::from on a class tree     *)
(***************************************************************************)
MaxDepth == 3

\* The class converters, the child elements they descend into and the field
\* the converted children fill
WalkConverters == {"ObjectClassType", "InteractionClassType"}

nested_name(T) ==
    IF T = "ObjectClassType" THEN "objectClasses" ELSE "interactionClass"

nested_field(T) ==
    IF T = "ObjectClassType" THEN "object_classes" ELSE "interaction_classes"

\* A class element of type T with those child classes, with or without name
WalkClass(T, named, classes) ==
    Element(nested_name(T), NoAttributes,
        (IF named THEN <<TextElement("name", <<"T", "a", "n", "k">>)>> ELSE <<>>)
        \o <<TextElement("sharing", <<"P", "u", "b", "l", "i", "s", "h">>),
             TextElement("transportation", <<"H", "L", "A", "r", "e", "l", "i", "a", "b", "l", "e">>),
             TextElement("order", <<"R", "e", "c", "e", "i", "v", "e">>)>>
        \o classes)

\* Class trees of depth up to d: a leaf with or without name, or a class over
\* a tree of depth up to d - 1, alone or followed by a leaf
RECURSIVE WalkTrees(_, _)
WalkTrees(T, d) ==
    LET leaves == {WalkClass(T, named, <<>>) : named \in BOOLEAN}
    IN  IF d = 1 THEN leaves
        ELSE LET below == WalkTrees(T, d - 1)
             IN  below
                 \cup {WalkClass(T, TRUE, <<c>>) : c \in below}
                 \cup {WalkClass(T, TRUE, <<c, l>>) : c \in below, l \in leaves}

\* A call of T::from on element e: k = 0 before the fields ahead of the child
\* classes are built, then the position of the child class to convert next;
\* own holds the struct without its child classes, vals the converted ones
Frame(T, e) == [fn |-> T, e |-> e, k |-> 0, own |-> <<>>, vals |-> <<>>]

Top == call[Len(call)]

\* The class trees the descent is run on
WalkInputs == UNION {WalkTrees(T, MaxDepth) : T \in WalkConverters}

\* The fields of T::from(e) ahead of the child classes, for every converter
\* and every class of the trees, each computed once
OwnFieldsOf ==
    {<<T, e, T_from(T, without_child(e, nested_name(T)))>> :
        T \in WalkConverters, e \in WalkInputs}

own_fields(T, e) == (CHOOSE p \in OwnFieldsOf : p[1] = T /\ p[2] = e)[3]

\* An iterator that stays on the child it has just converted
stay(frame, v) == frame

\* The iterator of get_text_of_child_elements_as_type moves on with the value
advance(frame, v) == [frame EXCEPT !.k = @ + 1, !.vals = Append(@, v)]

WalkInit ==
    /\ pc = "ready"
    /\ arg \in WalkInputs
    /\ call = <<>>
    /\ ret = NoReturn
    /\ input = [wellformed |-> TRUE, tree |-> Idle, error |-> "none"]
    /\ root = None
    /\ fom = <<>>
    /\ stdout = <<>>

\* T::from(arg) is called
Enter ==
    /\ pc = "ready"
    /\ \E T \in WalkConverters : call' = <<Frame(T, arg)>>
    /\ pc' = "walking"
    /\ UNCHANGED <<input, root, fom, stdout, ret, arg>>

\* The fields ahead of the child classes are built
OwnFields ==
    /\ pc = "walking"
    /\ Top.k = 0
    /\ own_fields(Top.fn, Top.e).ok
    /\ call' = [call EXCEPT ![Len(call)] =
                   [@ EXCEPT !.k = 1, !.own = own_fields(Top.fn, Top.e).val]]
    /\ UNCHANGED <<pc, input, root, fom, stdout, ret, arg>>

\* One of them panics: every call on the stack is unwound
Unwind ==
    /\ pc = "walking"
    /\ Top.k = 0
    /\ ~own_fields(Top.fn, Top.e).ok
    /\ ret' = Panicked(own_fields(Top.fn, Top.e).msg)
    /\ pc' = "applied"
    /\ call' = <<call[1]>>
    /\ UNCHANGED <<input, root, fom, stdout, arg>>

\* T::from is called on the next child class
Descend ==
    /\ pc = "walking"
    /\ Top.k \in 1..Len(named_children(Top.e, nested_name(Top.fn)))
    /\ call' = Append(call,
                   Frame(Top.fn, named_children(Top.e, nested_name(Top.fn))[Top.k]))
    /\ UNCHANGED <<pc, input, root, fom, stdout, ret, arg>>

\* Every child class is converted: the struct is returned to the caller
Return ==
    /\ pc = "walking"
    /\ Top.k = Len(named_children(Top.e, nested_name(Top.fn))) + 1
    /\ LET v == [Top.own EXCEPT
                    ![nested_field(Top.fn)] = none_if_empty(Ok(Top.vals)).val]
       IN  IF Len(call) = 1
           THEN /\ ret' = ReturnedOk(v)
                /\ pc' = "applied"
                /\ call' = call
           ELSE /\ call' = [SubSeq(call, 1, Len(call) - 1) EXCEPT
                               ![Len(call) - 1] = advance(@, v)]
                /\ UNCHANGED <<pc, ret>>
    /\ UNCHANGED <<input, root, fom, stdout, arg>>

WalkNext ==
    \/ Enter
    \/ OwnFields
    \/ Unwind
    \/ Descend
    \/ Return

\* The thread that runs the conversion is never stopped for ever
SpecWalk == WalkInit /\ [][WalkNext]_vars /\ WF_vars(WalkNext)

(***************************************************************************)
(* What the claims speak of, stated without the converters                 *)
(***************************************************************************)
\* s without its leading and trailing whitespace
RECURSIVE Stripped(_)
Stripped(s) ==
    IF s = <<>> THEN s
    ELSE IF Head(s) \in Whitespace THEN Stripped(Tail(s))
    ELSE IF s[Len(s)] \in Whitespace THEN Stripped(SubSeq(s, 1, Len(s) - 1))
    ELSE s

\* The text an element holds, as written in the document
RawText(e) == IF get_text(e).some THEN get_text(e).v ELSE <<>>

\* The token an element holds: its text without the surrounding whitespace
TokenOf(e) == Stripped(RawText(e))

\* The number of child elements of e named n
CountNamed(e, n) == Cardinality(child_positions(e, n))

\* The k-th child element of e named n, in document order
NthNamed(e, n, k) ==
    e.children[CHOOSE i \in child_positions(e, n) :
                   Cardinality({j \in child_positions(e, n) : j <= i}) = k]

Last(s) == s[Len(s)]

(***************************************************************************)
(* C1: a node that lacks a mandatory child element makes its converter     *)
(* fail with a missing-required-field error whose path names the field     *)
(* that is missing.                                                        *)
(***************************************************************************)
C1_MissingFieldIsNamed ==
    \A c \in DOMAIN Sample : \A i \in DOMAIN Mandatory[c] :
        (pc = "applied" /\ call.fn = c
            /\ arg = without_child(Sample[c], Mandatory[c][i]))
        => /\ ret.kind = "panic"
           /\ ret.msg.kind = "missing"
           /\ Last(ret.msg.path) = Mandatory[c][i]

(***************************************************************************)
(* C2: optional extraction of a child's text yields None when the node has *)
(* no child element of that name, and Some of the first such child's text  *)
(* without its surrounding whitespace when it has one; it never fails.     *)
(***************************************************************************)
C2_OptionalExtraction ==
    (pc = "applied" /\ call.fn = "get_text_of_child_element")
    => /\ ret.kind = "Ok"
       /\ IF CountNamed(arg, call.name) = 0
          THEN ret.val = None
          ELSE /\ ret.val.some
               /\ ret.val.v = TokenOf(NthNamed(arg, call.name, 1))

\* A child of the name is there, its text is padded, and the trimmed text
\* came back
C2_Witness ==
    /\ pc = "applied"
    /\ call.fn = "get_text_of_child_element"
    /\ CountNamed(arg, call.name) > 0
    /\ RawText(NthNamed(arg, call.name, 1)) # TokenOf(NthNamed(arg, call.name, 1))
    /\ ret.val = Some(TokenOf(NthNamed(arg, call.name, 1)))

C4_NoPresentButEmptyGroup ==
    pc \in {"println", "return"}
    => /\ fom.model_identification.poc # <<>>
       /\ LET attributes == fom.objects.root_object_class.attributes
          IN  attributes.some
              => \A k \in DOMAIN attributes.v :
                    attributes.v[k].dimensions # Some(<<>>)

(***************************************************************************)
(* C5: the closed vocabularies (order, reliability, endianness,            *)
(* synchronization capability) convert every known token to its own        *)
(* variant and fail with an unrecognized-value error on any other token,   *)
(* "Maybe" as a reliability among them.                                    *)
(***************************************************************************)
ClosedVocabulary == [
    OrderType_from |->
        {<<<<"R", "e", "c", "e", "i", "v", "e">>, "Receive">>, <<<<"T", "i", "m", "e", "S", "t", "a", "m", "p">>, "TimeStamp">>},
    ReliableType_from |-> {<<<<"Y", "e", "s">>, "Yes">>, <<<<"N", "o">>, "No">>},
    EndianType_from |-> {<<<<"B", "i", "g">>, "Big">>, <<<<"L", "i", "t", "t", "l", "e">>, "Little">>},
    CapabilityType_from |->
        {<<<<"R", "e", "g", "i", "s", "t", "e", "r">>, "Register">>, <<<<"A", "c", "h", "i", "e", "v", "e">>, "Achieve">>,
         <<<<"R", "e", "g", "i", "s", "t", "e", "r", "A", "c", "h", "i", "e", "v", "e">>, "RegisterAchieve">>, <<<<"N", "o", "S", "y", "n", "c", "h">>, "NoSynch">>,
         <<<<"N", "A">>, "Na">>}]

C5_ClosedVocabularies ==
    (pc = "applied" /\ call.fn \in DOMAIN ClosedVocabulary)
    => LET table == ClosedVocabulary[call.fn]
           known == {p \in table : p[1] = TokenOf(arg)}
       IN  /\ \A p, q \in table : p[1] # q[1] => p[2] # q[2]
           /\ IF known # {}
              THEN \A p \in known : ret = ReturnedOk(Variant(p[2]))
              ELSE /\ ret.kind = "panic"
                   /\ ret.msg.kind = "unknown"
                   /\ ret.msg.text = TokenOf(arg)

\* A reliable element that holds "Maybe" has made ReliableType fail
C5_Witness ==
    /\ pc = "applied"
    /\ call.fn = "ReliableType_from"
    /\ TokenOf(arg) = <<"M", "a", "y", "b", "e">>
    /\ ret.kind = "panic"
    /\ ret.msg.kind = "unknown"

(***************************************************************************)
(* C6: the security classification and the application domain convert any  *)
(* token of no table entry to the fallback variant, whose text is that     *)
(* token exactly, also when whitespace surrounds the element's text.       *)
(***************************************************************************)
OpenVocabulary == [
    SecurityClassificationType_from |->
        {<<"U", "n", "c", "l", "a", "s", "s", "i", "f", "i", "e", "d">>, <<"C", "o", "n", "f", "i", "d", "e", "n", "t", "i", "a", "l">>, <<"S", "e", "c", "r", "e", "t">>, <<"T", "o", "p", " ", "S", "e", "c", "r", "e", "t">>},
    ApplicationDomainType_from |->
        {<<"A", "n", "a", "l", "y", "s", "i", "s">>, <<"T", "r", "a", "i", "n", "i", "n", "g">>, <<"T", "e", "s", "t", " ", "a", "n", "d", " ", "E", "v", "a", "l", "u", "a", "t", "i", "o", "n">>, <<"E", "n", "g", "i", "n", "e", "e", "r", "i", "n", "g">>,
         <<"A", "c", "q", "u", "i", "s", "i", "t", "i", "o", "n">>}]

C6_FallbackRoundTrip ==
    (pc = "applied" /\ call.fn \in DOMAIN OpenVocabulary
        /\ TokenOf(arg) \notin OpenVocabulary[call.fn])
    => /\ ret.kind = "Ok"
       /\ ret.val = Other(TokenOf(arg))

\* A token of no table entry, padded in the element, came back as the text
\* of the fallback variant
C6_Witness ==
    /\ pc = "applied"
    /\ call.fn \in DOMAIN OpenVocabulary
    /\ TokenOf(arg) \notin OpenVocabulary[call.fn]
    /\ TokenOf(arg) # <<>>
    /\ RawText(arg) # TokenOf(arg)
    /\ ret.kind = "Ok"
    /\ ret.val.variant = "Other"
    /\ ret.val.text = TokenOf(arg)

(***************************************************************************)
(* C7: a document whose modelIdentification type holds a token other than  *)
(* the known ones parses, and the model type is the fallback variant that  *)
(* carries the token.                                                      *)
(***************************************************************************)
C7_UnknownModelTypeParses ==
    (input.wellformed /\ input.tree = Doc({<<"with", "unknown type">>}))
    => /\ ret.kind # "panic"
       /\ "model_identification" \in DOMAIN fom
          => fom.model_identification.model_type = Other(<<"X", "O", "M">>)

(***************************************************************************)
(* C8: the contact role and the array, fixed-record and variant-record     *)
(* encodings never fail on a token of no table entry: they yield a         *)
(* fallback variant that carries the token.                                *)
(***************************************************************************)
ClaimedOpenVocabulary == [
    PocTypeType_from |->
        {<<"P", "r", "i", "m", "a", "r", "y", " ", "a", "u", "t", "h", "o", "r">>, <<"C", "o", "n", "t", "r", "i", "b", "u", "t", "o", "r">>, <<"P", "r", "o", "p", "o", "n", "e", "n", "t">>, <<"S", "p", "o", "n", "s", "o", "r">>,
         <<"R", "e", "l", "e", "a", "s", "e", " ", "a", "u", "t", "h", "o", "r", "i", "t", "y">>, <<"T", "e", "c", "h", "n", "i", "c", "a", "l", " ", "P", "O", "C">>},
    ArrayDataTypeEncodingType_from |-> {<<"H", "L", "A", "f", "i", "x", "e", "d", "A", "r", "r", "a", "y">>, <<"H", "L", "A", "v", "a", "r", "i", "a", "b", "l", "e", "A", "r", "r", "a", "y">>},
    FixedRecordEncodingType_from |-> {<<"H", "L", "A", "f", "i", "x", "e", "d", "R", "e", "c", "o", "r", "d">>},
    VariantRecordEncodingType_from |-> {<<"H", "L", "A", "v", "a", "r", "i", "a", "n", "t", "R", "e", "c", "o", "r", "d">>}]

C8_UnknownTokenFallsBack ==
    (pc = "applied" /\ call.fn \in DOMAIN ClaimedOpenVocabulary
        /\ TokenOf(arg) \notin ClaimedOpenVocabulary[call.fn])
    => /\ ret.kind = "Ok"
       /\ ret.val = Other(TokenOf(arg))

(***************************************************************************)
(* C9: the minimal document converts: no field panics, and in the object   *)
(* model every optional section is None.                                   *)
(***************************************************************************)
OptionalFields ==
    {"service_utilization", "time", "tags", "synchronizations", "update_rates",
     "notes"}

C9_MinimalConverts ==
    (input.wellformed /\ input.tree = Minimal)
    => /\ pc # "panicked"
       /\ ret.kind # "panic"
       /\ \A f \in OptionalFields : f \in DOMAIN fom => fom[f] = None
       /\ pc \in {"println", "return"}
          => DOMAIN fom = OptionalFields \cup
                {"model_identification", "objects", "interactions", "dimensions",
                 "transportations", "switches", "data_types"}

\* The minimal document has been converted, whole
C9_Witness ==
    /\ input.wellformed
    /\ input.tree = Minimal
    /\ pc = "println"
    /\ \A f \in OptionalFields : fom[f] = None
    /\ fom.switches.auto_provide.is_enabled

(***************************************************************************)
(* C10: the minimal document without the auto_provide attribute of         *)
(* switches fails at the switches with a missing-required-field error that *)
(* names auto_provide, and parse returns nothing.                          *)
(***************************************************************************)
WithoutAutoProvide == Doc({<<"unset", "auto_provide">>})

C10_MissingAutoProvide ==
    (input.wellformed /\ input.tree = WithoutAutoProvide)
    => /\ ret.kind \in {"none", "panic"}
       /\ pc \notin {"update_rates", "data_types", "notes", "println", "return",
                     "done"}
       /\ "switches" \notin DOMAIN fom
       /\ ret.kind = "panic"
          => ret.msg = [kind |-> "missing", path |-> <<"switch", "auto_provide">>]

\* The run over that document has ended in the panic
C10_Witness ==
    /\ input.wellformed
    /\ input.tree = WithoutAutoProvide
    /\ pc = "panicked"
    /\ ret.kind = "panic"
    /\ Last(ret.msg.path) = "auto_provide"

(***************************************************************************)
(* C11: Switches has exactly 11 flags, all mandatory: a switches element   *)
(* that lacks any one of the 11 attributes fails, whatever the others      *)
(* hold, and a Switches value, of 11 fields, is produced only from an      *)
(* element that holds all 11 with valid texts.                             *)
(***************************************************************************)
BooleanFlags ==
    {"auto_provide", "convey_region_designator_sets", "convey_producing_federate",
     "attribute_scope_advisory", "attribute_relevance_advisory",
     "object_class_relevance_advisory", "interaction_relevance_advisory",
     "service_reporting", "exception_reporting", "delay_subscription_evaluation"}

ResignActions ==
    {<<"U", "n", "c", "o", "n", "d", "i", "t", "i", "o", "n", "a", "l", "l", "y", "D", "i", "v", "e", "s", "t", "A", "t", "t", "r", "i", "b", "u", "t", "e", "s">>, <<"D", "e", "l", "e", "t", "e", "O", "b", "j", "e", "c", "t", "s">>,
     <<"C", "a", "n", "c", "e", "l", "P", "e", "n", "d", "i", "n", "g", "O", "w", "n", "e", "r", "s", "h", "i", "p", "A", "c", "q", "u", "i", "s", "i", "t", "i", "o", "n", "s">>, <<"D", "e", "l", "e", "t", "e", "O", "b", "j", "e", "c", "t", "s", "T", "h", "e", "n", "D", "i", "v", "e", "s", "t">>,
     <<"C", "a", "n", "c", "e", "l", "T", "h", "e", "n", "D", "e", "l", "e", "t", "e", "T", "h", "e", "n", "D", "i", "v", "e", "s", "t">>, <<"N", "o", "A", "c", "t", "i", "o", "n">>}

\* Attribute a of element e holds a text its flag accepts
ValidFlag(e, a) ==
    /\ a \in DOMAIN e.attributes
    /\ IF a \in BooleanFlags
       THEN e.attributes[a] \in {<<"t", "r", "u", "e">>, <<"f", "a", "l", "s", "e">>}
       ELSE e.attributes[a] \in ResignActions

C11_AllSwitchesMandatory ==
    (pc = "applied" /\ call.fn = "SwitchesType_from")
    => LET flags == BooleanFlags \cup {"automatic_resign_action"}
       IN  /\ Cardinality(flags) = 11
           /\ \A a \in flags : a \notin DOMAIN arg.attributes => ret.kind = "panic"
           /\ ret.kind = "Ok" <=> \A a \in flags : ValidFlag(arg, a)
           /\ ret.kind = "Ok" => DOMAIN ret.val = flags

\* A switches element that lacks one flag and holds an invalid text in
\* another has made the conversion fail
C11_Witness ==
    /\ pc = "applied"
    /\ call.fn = "SwitchesType_from"
    /\ "service_reporting" \notin DOMAIN arg.attributes
    /\ \A a \in BooleanFlags \ {"service_reporting"} : ValidFlag(arg, a)
    /\ "automatic_resign_action" \in DOMAIN arg.attributes
    /\ ~ValidFlag(arg, "automatic_resign_action")
    /\ ret.kind = "panic"

(***************************************************************************)
(* Class trees, in the document and converted                              *)
(***************************************************************************)
RECURSIVE Sum(_)
Sum(ns) == IF ns = <<>> THEN 0 ELSE Head(ns) + Sum(Tail(ns))

\* The child elements of e named n, in document order
ChildrenNamed(e, n) == [k \in 1..CountNamed(e, n) |-> NthNamed(e, n, k)]

\* The number of elements named n in the tree of e: e and, at any depth,
\* the elements named n nested in elements named n
RECURSIVE NestedCount(_, _)
NestedCount(e, n) ==
    1 + Sum([k \in 1..CountNamed(e, n) |-> NestedCount(NthNamed(e, n, k), n)])

\* The number of nodes of a converted class tree v whose child classes are
\* its field f: the length of its pre-order traversal
RECURSIVE TreeNodes(_, _)
TreeNodes(v, f) ==
    1 + (IF v[f].some
         THEN Sum([k \in DOMAIN v[f].v |-> TreeNodes(v[f].v[k], f)])
         ELSE 0)

\* The converted items vs are the elements es, one for one, by name
SameNames(es, vs) ==
    IF es = <<>> THEN ~vs.some
    ELSE /\ vs.some
         /\ Len(vs.v) = Len(es)
         /\ \A k \in DOMAIN es : vs.v[k].name = TokenOf(NthNamed(es[k], "name", 1))

(***************************************************************************)
(* C12: the converted object-class tree has one node for every objectClass *)
(* element nested at any depth under the root objectClass, children in     *)
(* document order, each node with its own name and attributes; a root with *)
(* a child, a grandchild and one more class converts to 4 nodes.           *)
(***************************************************************************)
RECURSIVE ObjectTreePreserved(_, _)
ObjectTreePreserved(e, v) ==
    LET classes == ChildrenNamed(e, "objectClass")
    IN  /\ v.name = TokenOf(NthNamed(e, "name", 1))
        /\ SameNames(ChildrenNamed(e, "attribute"), v.attributes)
        /\ SameNames(classes, v.object_classes)
        /\ \A k \in DOMAIN classes :
              ObjectTreePreserved(classes[k], v.object_classes.v[k])

C12_ObjectClassTreePreserved ==
    (pc = "applied" /\ call.fn = "ObjectClassType_from" /\ ret.kind = "Ok")
    => /\ TreeNodes(ret.val, "object_classes") = NestedCount(arg, "objectClass")
       /\ ObjectTreePreserved(arg, ret.val)

(***************************************************************************)
(* C13: the converted interaction-class tree has one node for every        *)
(* interactionClass element nested at any depth under the root             *)
(* interactionClass, children in document order, each node with its own    *)
(* name, sharing, transportation, order and parameters.                    *)
(***************************************************************************)
SharingVocabulary ==
    {<<<<"P", "u", "b", "l", "i", "s", "h">>, "Publish">>, <<<<"S", "u", "b", "s", "c", "r", "i", "b", "e">>, "Subscribe">>,
     <<<<"P", "u", "b", "l", "i", "s", "h", "S", "u", "b", "s", "c", "r", "i", "b", "e">>, "PublishSubscribe">>, <<<<"N", "e", "i", "t", "h", "e", "r">>, "Neither">>}

\* The variants a table gives the token of the first child of e named n
VariantsOf(table, e, n) ==
    {Variant(p[2]) : p \in {q \in table : q[1] = TokenOf(NthNamed(e, n, 1))}}

RECURSIVE InteractionTreePreserved(_, _)
InteractionTreePreserved(e, v) ==
    LET classes == ChildrenNamed(e, "interactionClass")
    IN  /\ v.name = TokenOf(NthNamed(e, "name", 1))
        /\ v.sharing \in VariantsOf(SharingVocabulary, e, "sharing")
        /\ v.transportation.value = TokenOf(NthNamed(e, "transportation", 1))
        /\ v.order \in VariantsOf(ClosedVocabulary["OrderType_from"], e, "order")
        /\ SameNames(ChildrenNamed(e, "parameter"), v.parameters)
        /\ SameNames(classes, v.interaction_classes)
        /\ \A k \in DOMAIN classes :
              InteractionTreePreserved(classes[k], v.interaction_classes.v[k])

C13_InteractionClassTreePreserved ==
    /\ (pc = "applied" /\ call.fn = "InteractionClassType_from" /\ ret.kind = "Ok")
       => /\ TreeNodes(ret.val, "interaction_classes")
                = NestedCount(arg, "interactionClass")
          /\ InteractionTreePreserved(arg, ret.val)
    /\ (pc = "applied" /\ call.fn = "InteractionsType_from" /\ ret.kind = "Ok")
       => InteractionTreePreserved(NthNamed(arg, "interactionClass", 1),
                                   ret.val.interactions)
    /\ (pc = "applied" /\ call.fn = "InteractionClassType_from"
           /\ arg \in NestedInteractionClassNodes)
       => ret.kind = "Ok"

\* A root with a class that has classes of its own, and one more class, has
\* been converted to a tree of as many nodes
C13_Witness ==
    /\ pc = "applied"
    /\ call.fn = "InteractionClassType_from"
    /\ CountNamed(arg, "interactionClass") = 2
    /\ CountNamed(NthNamed(arg, "interactionClass", 1), "interactionClass") = 2
    /\ ret.kind = "Ok"
    /\ TreeNodes(ret.val, "interaction_classes") = 5
    /\ ret.val.interaction_classes.v[1].interaction_classes.v[2].name = <<"H", "i", "t">>
    /\ ret.val.interaction_classes.v[2].name = <<"F", "i", "r", "e">>

(***************************************************************************)
(* C14: on success parse returns to its caller the fully populated         *)
(* ObjectModel built from the root element, not an empty value.            *)
(***************************************************************************)
ObjectModelFields ==
    {"model_identification", "service_utilization", "objects", "interactions",
     "dimensions", "time", "tags", "synchronizations", "transportations",
     "switches", "update_rates", "data_types", "notes"}

C14_SuccessCarriesTheModel ==
    (pc = "done" /\ ret.kind = "Ok")
    => /\ DOMAIN ret.val = ObjectModelFields
       /\ ret.val.model_identification.name
            = TokenOf(NthNamed(NthNamed(input.tree, "modelIdentification", 1),
                               "name", 1))

(***************************************************************************)
(* C15: a document in which some converter, at any depth, meets a missing  *)
(* required field, an unrecognized closed-vocabulary value or a malformed  *)
(* scalar never brings parse to its end or to a success; after the failure *)
(* nothing of the object model is left, and nothing was printed.           *)
(***************************************************************************)
FailingDeviations ==
    {<<"drop", s>> : s \in RequiredSections}
    \cup {<<"unset", a>> : a \in SwitchAttributes}
    \cup {<<"with", x>> : x \in {"unknown type", "reliable Maybe", "no disconnect",
                                 "no class name", "malformed switch"}}

C15_FailFastNoPartialResult ==
    /\ (input.wellformed /\ (pc \in {"println", "return", "done"} \/ ret.kind = "Ok"))
       => \A D \in DeviationSets :
             input.tree = Doc(D) => D \cap FailingDeviations = {}
    /\ ret.kind = "panic" => (pc = "panicked" /\ fom = <<>> /\ stdout = <<>>)
    /\ pc = "panicked" => ret.kind = "panic"

\* A malformed scalar three fields after a present optional section has
\* ended the run: the fields converted before it are gone
C15_Witness ==
    /\ input.wellformed
    /\ input.tree = Doc({<<"with", "malformed switch">>, <<"add", "time">>})
    /\ pc = "panicked"
    /\ ret.kind = "panic"
    /\ ret.msg.kind = "unwrap"
    /\ fom = <<>>

(***************************************************************************)
(* C16: a conversion failure reaches the caller of parse as a failure      *)
(* value of parse's result, as a syntax error does; parse never ends by    *)
(* aborting control flow outside its result type.                          *)
(***************************************************************************)
C16_FailureIsAResult ==
    /\ ret.kind \in {"none", "Ok", "Err"}
    /\ pc # "panicked"

(***************************************************************************)
(* C17: when the tree parser fails with a syntax error, parse returns that *)
(* error unchanged, and no converter is applied.                           *)
(***************************************************************************)
C17_SyntaxErrorPassedThrough ==
    ~input.wellformed
    => /\ pc \in {"Element::parse", "done"}
       /\ root = None
       /\ fom = <<>>
       /\ stdout = <<>>
       /\ pc = "Element::parse" => ret = NoReturn
       /\ pc = "done" => ret = ReturnedErr(input.error)

\* A stream the tree parser rejected as malformed XML has come back as
\* that error
C17_Witness ==
    /\ ~input.wellformed
    /\ input.error = "MalformedXml"
    /\ pc = "done"
    /\ ret.kind = "Err"
    /\ ret.err = "MalformedXml"
    /\ fom = <<>>

(***************************************************************************)
(* C18: a data-type, transportation, dimension or representation reference *)
(* never fails, whatever name it holds, a name of no definition and the    *)
(* empty text included: the reference is stored as the trimmed name.       *)
(***************************************************************************)
C18_DanglingReferencesTolerated ==
    /\ (pc = "applied" /\ call.fn = "ReferenceType_from")
       => ret = ReturnedOk([value |-> TokenOf(arg)])
    /\ (pc = "applied" /\ call.fn = "AttributeType_from"
           /\ arg \in ReferencingAttributes)
       => /\ ret.kind = "Ok"
          /\ ret.val.data_type = [value |-> TokenOf(NthNamed(arg, "dataType", 1))]
          /\ ret.val.transportation
                = [value |-> TokenOf(NthNamed(arg, "transportation", 1))]
          /\ IF CountNamed(arg, "dimensions") = 0 THEN ~ret.val.dimensions.some
             ELSE LET ds == ChildrenNamed(NthNamed(arg, "dimensions", 1), "dimension")
                  IN  /\ ret.val.dimensions.some
                      /\ Len(ret.val.dimensions.v) = Len(ds)
                      /\ \A k \in DOMAIN ds :
                            ret.val.dimensions.v[k] = [value |-> TokenOf(ds[k])]

\* An attribute whose data type names nothing defined, whose transportation
\* is the empty text and whose second dimension is a padded name has been
\* converted
C18_Witness ==
    /\ pc = "applied"
    /\ call.fn = "AttributeType_from"
    /\ arg \in ReferencingAttributes
    /\ ret.kind = "Ok"
    /\ ret.val.data_type.value = <<"N", "o", "S", "u", "c", "h", "N", "a", "m", "e">>
    /\ ret.val.transportation.value = <<>>
    /\ ret.val.dimensions.some
    /\ Len(ret.val.dimensions.v) = 2
    /\ ret.val.dimensions.v[2].value = <<"P", "a", "d", "d", "e", "d">>

(***************************************************************************)
(* C19: each of the 10 boolean switch flags converts its attribute text as *)
(* a boolean literal: true gives enabled, false gives disabled, any other  *)
(* text makes the conversion fail.                                         *)
(***************************************************************************)
C19_BooleanSwitchLiteral ==
    /\ (pc = "applied" /\ call.fn = "SwitchType_from")
       => LET text == arg.attributes[call.name]
          IN  /\ call.name \in BooleanFlags
              /\ text = <<"t", "r", "u", "e">> => ret = ReturnedOk([is_enabled |-> TRUE])
              /\ text = <<"f", "a", "l", "s", "e">> => ret = ReturnedOk([is_enabled |-> FALSE])
              /\ text \notin {<<"t", "r", "u", "e">>, <<"f", "a", "l", "s", "e">>}
                 => (ret.kind = "panic" /\ ret.msg.kind = "unwrap")
    /\ (pc = "applied" /\ call.fn = "SwitchesType_from")
       => \A a \in BooleanFlags :
             /\ ret.kind = "Ok"
                => ret.val[a] = [is_enabled |-> (arg.attributes[a] = <<"t", "r", "u", "e">>)]
             /\ (a \in DOMAIN arg.attributes
                    /\ arg.attributes[a] \notin {<<"t", "r", "u", "e">>, <<"f", "a", "l", "s", "e">>})
                => ret.kind = "panic"

\* A flag written TRUE has made the conversion of the switches fail
C19_Witness ==
    /\ pc = "applied"
    /\ call.fn = "SwitchesType_from"
    /\ \E a \in BooleanFlags :
          /\ a \in DOMAIN arg.attributes
          /\ arg.attributes[a] = <<"T", "R", "U", "E">>
          /\ \A b \in (BooleanFlags \cup {"automatic_resign_action"}) \ {a} :
                ValidFlag(arg, b)
    /\ ret.kind = "panic"
    /\ ret.msg = [kind |-> "unwrap", text |-> <<"T", "R", "U", "E">>]

(***************************************************************************)
(* C20: every controlled-vocabulary converter, the glyph format among      *)
(* them, matches its table exactly and case-sensitively: a token that      *)
(* differs from a known token only in letter case is not accepted as a     *)
(* known token.                                                            *)
(***************************************************************************)
VocabularyTokens == [
    ModelType_from |-> {<<"F", "O", "M">>, <<"S", "O", "M">>},
    SecurityClassificationType_from |-> OpenVocabulary["SecurityClassificationType_from"],
    ApplicationDomainType_from |-> OpenVocabulary["ApplicationDomainType_from"],
    PocTypeType_from |-> ClaimedOpenVocabulary["PocTypeType_from"],
    SharingType_from |-> {p[1] : p \in SharingVocabulary},
    UpdateType_from |-> {<<"S", "t", "a", "t", "i", "c">>, <<"P", "e", "r", "i", "o", "d", "i", "c">>, <<"C", "o", "n", "d", "i", "t", "i", "o", "n", "a", "l">>, <<"N", "A">>},
    OwnershipType_from |->
        {<<"D", "i", "v", "e", "s", "t">>, <<"A", "c", "q", "u", "i", "r", "e">>, <<"D", "i", "v", "e", "s", "t", "A", "c", "q", "u", "i", "r", "e">>, <<"N", "o", "T", "r", "a", "n", "s", "f", "e", "r">>},
    OrderType_from |-> {p[1] : p \in ClosedVocabulary["OrderType_from"]},
    CapabilityType_from |-> {p[1] : p \in ClosedVocabulary["CapabilityType_from"]},
    ReliableType_from |-> {p[1] : p \in ClosedVocabulary["ReliableType_from"]},
    EndianType_from |-> {p[1] : p \in ClosedVocabulary["EndianType_from"]},
    ArrayDataTypeEncodingType_from |->
        ClaimedOpenVocabulary["ArrayDataTypeEncodingType_from"],
    FixedRecordEncodingType_from |->
        ClaimedOpenVocabulary["FixedRecordEncodingType_from"],
    VariantRecordEncodingType_from |->
        ClaimedOpenVocabulary["VariantRecordEncodingType_from"],
    GlyphTypeType_from |-> {<<"B", "I", "T", "M", "A", "P">>, <<"J", "P", "G">>, <<"G", "I", "F">>, <<"P", "N", "G">>, <<"T", "I", "F", "F">>}]

LowerCase == <<"a", "b", "c", "d", "e", "f", "g", "h", "i", "j", "k", "l", "m", "n", "o", "p", "q", "r", "s", "t", "u", "v", "w", "x", "y", "z">>
UpperCase == <<"A", "B", "C", "D", "E", "F", "G", "H", "I", "J", "K", "L", "M", "N", "O", "P", "Q", "R", "S", "T", "U", "V", "W", "X", "Y", "Z">>

\* s with its upper-case letters in lower case
Folded(s) ==
    [i \in DOMAIN s |->
        IF \E k \in DOMAIN UpperCase : UpperCase[k] = s[i]
        THEN LowerCase[CHOOSE k \in DOMAIN UpperCase : UpperCase[k] = s[i]]
        ELSE s[i]]

\* The token a vocabulary converter was called on: the text of the element,
\* or of the attribute for the converters of attributes
CalledToken ==
    IF call.name = "" THEN TokenOf(arg) ELSE arg.attributes[call.name]

C20_CaseSensitiveMatch ==
    (pc = "applied" /\ call.fn \in DOMAIN VocabularyTokens
        /\ CalledToken \notin VocabularyTokens[call.fn]
        /\ \E t \in VocabularyTokens[call.fn] : Folded(t) = Folded(CalledToken))
    => (ret.kind = "Ok" => ret.val.variant = "Other")

(***************************************************************************)
(* C21: a root element that lacks one of modelIdentification, objects,     *)
(* interactions, dimensions, transportations, switches, dataTypes fails    *)
(* the conversion; a lacking serviceUtilization, time, tags,               *)
(* synchronizations, updateRates or notes never fails and leaves its field *)
(* absent, and a present one makes its field present.                      *)
(***************************************************************************)
RequiredSectionNames ==
    {"modelIdentification", "objects", "interactions", "dimensions",
     "transportations", "switches", "dataTypes"}

OptionalSectionFields ==
    {<<"serviceUtilization", "service_utilization">>, <<"time", "time">>,
     <<"tags", "tags">>, <<"synchronizations", "synchronizations">>,
     <<"updateRates", "update_rates">>, <<"notes", "notes">>}

\* e holds the mandatory sections exactly as the minimal document does
MandatoryAsMinimal(e) ==
    SelectSeq(e.children, LAMBDA c : c.name \in RequiredSectionNames)
        = Minimal.children

C21_TopLevelSections ==
    input.wellformed
    => /\ (\E s \in RequiredSectionNames : CountNamed(input.tree, s) = 0)
          => (ret.kind # "Ok" /\ pc \notin {"println", "return", "done"})
       /\ \A p \in OptionalSectionFields :
             p[2] \in DOMAIN fom
             => (fom[p[2]].some <=> CountNamed(input.tree, p[1]) > 0)
       /\ (MandatoryAsMinimal(input.tree)
              /\ CountNamed(input.tree, "serviceUtilization") = 0)
          => ret.kind # "panic"

\* A document with time and notes and without tags has been converted
C21_Witness ==
    /\ input.wellformed
    /\ pc = "println"
    /\ CountNamed(input.tree, "time") = 1
    /\ CountNamed(input.tree, "notes") = 1
    /\ CountNamed(input.tree, "tags") = 0
    /\ fom.time.some
    /\ fom.notes.some
    /\ ~fom.tags.some

(***************************************************************************)
(* C22: get_element_text returns the text of the element without its       *)
(* leading and trailing whitespace, the empty string for an element        *)
(* without text, and never fails.                                          *)
(***************************************************************************)
C22_TextAccessor ==
    (pc = "applied" /\ call.fn = "get_element_text")
    => /\ ret = ReturnedOk(TokenOf(arg))
       /\ ~get_text(arg).some => ret.val = <<>>
       /\ \A i \in DOMAIN ret.val :
             i \in {1, Len(ret.val)} => ret.val[i] \notin Whitespace

\* A text padded on both sides came back without the padding
C22_Witness ==
    /\ pc = "applied"
    /\ call.fn = "get_element_text"
    /\ get_text(arg).some
    /\ Len(RawText(arg)) >= 3
    /\ Head(RawText(arg)) \in Whitespace
    /\ RawText(arg)[Len(RawText(arg))] \in Whitespace
    /\ ret.kind = "Ok"
    /\ ret.val # <<>>
    /\ ret.val = SubSeq(RawText(arg), 2, Len(RawText(arg)) - 1)

\* An element without text gave the empty string
C22_WitnessNoText ==
    /\ pc = "applied"
    /\ call.fn = "get_element_text"
    /\ ~get_text(arg).some
    /\ ret = ReturnedOk(<<>>)

(***************************************************************************)
(* C23: a call of parse writes nothing to the console and leaves the       *)
(* element tree it converted as it was read; its return value is the only  *)
(* thing it changes.                                                       *)
(***************************************************************************)
C23_NoConsoleOutput ==
    /\ stdout = <<>>
    /\ root.some => root.v = input.tree

(***************************************************************************)
(* C24: the dimension references of an interaction class, written as       *)
(* dimension children of its dimensions child like those of an attribute,  *)
(* are its dimension list, in document order; an interaction class         *)
(* without such references has no dimension list.                          *)
(***************************************************************************)
\* The dimension elements under the dimensions child of e, in document order
DimensionReferences(e) ==
    IF CountNamed(e, "dimensions") = 0 THEN <<>>
    ELSE ChildrenNamed(NthNamed(e, "dimensions", 1), "dimension")

C24_InteractionClassDimensions ==
    (pc = "applied" /\ call.fn = "InteractionClassType_from"
        /\ arg \in DimensionedInteractionClasses)
    => /\ ret.kind = "Ok"
       /\ LET ds == DimensionReferences(arg)
          IN  IF ds = <<>> THEN ~ret.val.dimensions.some
              ELSE /\ ret.val.dimensions.some
                   /\ Len(ret.val.dimensions.v) = Len(ds)
                   /\ \A k \in DOMAIN ds :
                         ret.val.dimensions.v[k] = [value |-> TokenOf(ds[k])]

(***************************************************************************)
(* C25: of the error conditions a document meets, the one that aborts      *)
(* parse is the first in the converters' depth-first field order, whatever *)
(* the order of the elements in the document, and no field that comes      *)
(* after it in that order has been converted.                              *)
(***************************************************************************)
\* The fields of ObjectModelType in the order of their declaration
FieldOrder ==
    <<"model_identification", "service_utilization", "objects", "interactions",
      "dimensions", "time", "tags", "synchronizations", "transportations",
      "switches", "update_rates", "data_types", "notes">>

FieldIndex(f) == CHOOSE i \in DOMAIN FieldOrder : FieldOrder[i] = f

Present(e, n) == CountNamed(e, n) > 0
Section(e, n) == NthNamed(e, n, 1)

Range(s) == {s[i] : i \in DOMAIN s}

\* Per switch flag, in the order of the fields of SwitchesType: the attribute
\* is not set, then the attribute is set to something else than true or false
FlagConditions(e) ==
    [k \in 1..(2 * Len(SwitchNames)) |->
        LET a == SwitchNames[(k + 1) \div 2]
            set == Present(e, "switches") /\ a \in DOMAIN Section(e, "switches").attributes
        IN  IF k % 2 = 1
            THEN <<Present(e, "switches") /\ ~set,
                   [kind |-> "missing", path |-> <<"switch", a>>], "switches">>
            ELSE <<set /\ Section(e, "switches").attributes[a] \notin {<<"t", "r", "u", "e">>, <<"f", "a", "l", "s", "e">>},
                   [kind |-> "unwrap",
                    text |-> IF set THEN Section(e, "switches").attributes[a] ELSE <<>>],
                   "switches">>]

\* The error conditions of the documents, in depth-first field order: whether
\* the root e meets it, the message of the failure, the field it belongs to
ErrorConditions(e) ==
    << <<~Present(e, "modelIdentification"),
         [kind |-> "missing", path |-> <<"modelIdentification">>],
         "model_identification">>,
       <<Present(e, "modelIdentification")
            /\ TokenOf(Section(Section(e, "modelIdentification"), "type"))
                  \notin {<<"F", "O", "M">>, <<"S", "O", "M">>},
         [kind |-> "unknown", what |-> "modelidentification -> type",
          text |-> IF Present(e, "modelIdentification")
                   THEN TokenOf(Section(Section(e, "modelIdentification"), "type"))
                   ELSE <<>>],
         "model_identification">>,
       <<Present(e, "serviceUtilization")
            /\ ~Present(Section(e, "serviceUtilization"), "disconnect"),
         [kind |-> "missing",
          path |-> <<"objectModel", "serviceUtilization", "connect">>],
         "service_utilization">>,
       <<~Present(e, "objects"),
         [kind |-> "missing", path |-> <<"objects">>], "objects">>,
       <<Present(e, "objects")
            /\ ~Present(Section(Section(e, "objects"), "objectClass"), "name"),
         [kind |-> "missing",
          path |-> <<"objectModel", "objects", "objectClass", "name">>],
         "objects">>,
       <<~Present(e, "interactions"),
         [kind |-> "missing", path |-> <<"interactions">>], "interactions">>,
       <<~Present(e, "dimensions"),
         [kind |-> "missing", path |-> <<"dimensions">>], "dimensions">>,
       <<~Present(e, "transportations"),
         [kind |-> "missing", path |-> <<"transportations">>], "transportations">>,
       <<Present(e, "transportations")
            /\ \E t \in Range(ChildrenNamed(Section(e, "transportations"),
                                            "transportation")) :
                  TokenOf(Section(t, "reliable")) = <<"M", "a", "y", "b", "e">>,
         [kind |-> "unknown", what |-> "reliable type", text |-> <<"M", "a", "y", "b", "e">>],
         "transportations">>,
       <<~Present(e, "switches"),
         [kind |-> "missing", path |-> <<"switches">>], "switches">> >>
    \o FlagConditions(e)
    \o << <<Present(e, "switches")
               /\ "automatic_resign_action"
                     \notin DOMAIN Section(e, "switches").attributes,
            [kind |-> "missing", path |-> <<"switch", "automatic_resign_action">>],
            "switches">>,
          <<~Present(e, "dataTypes"),
            [kind |-> "missing", path |-> <<"dataTypes">>], "data_types">> >>

\* The first condition the root e meets: its message and its field
FirstError(e) ==
    LET cs == ErrorConditions(e)
        met == {i \in DOMAIN cs : cs[i][1]}
    IN  IF met = {} THEN [met |-> 0]
        ELSE [met |-> Cardinality(met), msg |-> cs[Min(met)][2],
              field |-> cs[Min(met)][3]]

C25_FirstErrorOrdering ==
    input.wellformed
    => LET first == FirstError(input.tree)
       IN  /\ pc = "panicked" => (first.met > 0 /\ ret = Panicked(first.msg))
           /\ first.met > 0
              => /\ \A f \in DOMAIN fom : FieldIndex(f) < FieldIndex(first.field)
                 /\ pc \notin {"println", "return", "done"}

\* A document in reverse order lacks switches and objects and holds an
\* unknown model type: the model type aborted the parse
C25_Witness ==
    /\ input.wellformed
    /\ input.tree.children[1].name = "dataTypes"
    /\ FirstError(input.tree).met >= 2
    /\ ~Present(input.tree, "objects")
    /\ pc = "panicked"
    /\ ret.msg.kind = "unknown"
    /\ ret.msg.what = "modelidentification -> type"

(***************************************************************************)
(* C26: the size of a basic data representation converts exactly when its  *)
(* trimmed text is a decimal integer in 0..255, the height and the width   *)
(* of a glyph exactly when the attribute is a decimal integer in 0..65535; *)
(* any other text fails as a malformed scalar, and a converted value is    *)
(* the number written, never a wrapped or truncated one.                   *)
(***************************************************************************)
DecimalDigits == {"0", "1", "2", "3", "4", "5", "6", "7", "8", "9"}

DigitOf(c) ==
    CASE c = "0" -> 0 [] c = "1" -> 1 [] c = "2" -> 2 [] c = "3" -> 3
      [] c = "4" -> 4 [] c = "5" -> 5 [] c = "6" -> 6 [] c = "7" -> 7
      [] c = "8" -> 8 [] c = "9" -> 9

\* The number the digits ds write after the digits that gave acc
RECURSIVE NumberAfter(_, _)
NumberAfter(acc, ds) ==
    IF ds = <<>> THEN acc ELSE NumberAfter(10 * acc + DigitOf(Head(ds)), Tail(ds))

\* The digits of s, s being written with or without a plus sign
Unsigned(s) == IF s # <<>> /\ Head(s) = "+" THEN Tail(s) ELSE s

\* s is a decimal integer of lo..hi; a minus sign makes it none
DecimalIn(s, lo, hi) ==
    /\ Unsigned(s) # <<>>
    /\ \A i \in DOMAIN Unsigned(s) : Unsigned(s)[i] \in DecimalDigits
    /\ NumberAfter(0, Unsigned(s)) \in lo..hi

C26_NumericScalarsBounded ==
    /\ (pc = "applied" /\ call.fn = "SizeType_from")
       => IF DecimalIn(TokenOf(arg), 0, 255)
          THEN ret = ReturnedOk([size |-> NumberAfter(0, Unsigned(TokenOf(arg)))])
          ELSE ret = Panicked([kind |-> "unwrap", text |-> TokenOf(arg)])
    /\ (pc = "applied" /\ call.fn = "GlyphType_from" /\ arg \in SizedGlyphNodes)
       => LET h == arg.attributes["height"]
              w == arg.attributes["width"]
          IN  IF ~DecimalIn(h, 0, 65535)
              THEN ret = Panicked([kind |-> "unwrap", text |-> h])
              ELSE IF ~DecimalIn(w, 0, 65535)
              THEN ret = Panicked([kind |-> "unwrap", text |-> w])
              ELSE /\ ret.kind = "Ok"
                   /\ ret.val.height = NumberAfter(0, Unsigned(h))
                   /\ ret.val.width = NumberAfter(0, Unsigned(w))

\* The size 256, padded, failed as a malformed scalar
C26_Witness ==
    /\ pc = "applied"
    /\ call.fn = "SizeType_from"
    /\ TokenOf(arg) = <<"2", "5", "6">>
    /\ RawText(arg) # TokenOf(arg)
    /\ ret = Panicked([kind |-> "unwrap", text |-> <<"2", "5", "6">>])

\* The size 255 converted, a glyph of height 65535 converted, and a glyph of
\* width 65536 failed
C26_WitnessSize255 ==
    /\ pc = "applied"
    /\ call.fn = "SizeType_from"
    /\ ret = ReturnedOk([size |-> 255])

C26_WitnessHeight65535 ==
    /\ pc = "applied"
    /\ call.fn = "GlyphType_from"
    /\ ret.kind = "Ok"
    /\ ret.val.height = 65535
    /\ ret.val.width = 0

C26_WitnessWidth65536 ==
    /\ pc = "applied"
    /\ call.fn = "GlyphType_from"
    /\ arg \in SizedGlyphNodes
    /\ arg.attributes["height"] = <<"3", "2">>
    /\ ret = Panicked([kind |-> "unwrap", text |-> <<"6", "5", "5", "3", "6">>])

(***************************************************************************)
(* C27: a modelIdentification converts only if it holds all of name, type, *)
(* version, modificationDate, securityClassification and description; the  *)
(* absence of releaseRestriction, purpose, applicationDomain,              *)
(* useLimitation, useHistory, keyword, poc, reference, other or glyph      *)
(* never makes it fail.                                                    *)
(***************************************************************************)
ObligatoryChildren ==
    <<"name", "type", "version", "modificationDate", "securityClassification",
      "description">>

\* The optional children and the fields they fill
FacultativeChildren ==
    {<<"releaseRestriction", "release_restriction">>, <<"purpose", "purpose">>,
     <<"applicationDomain", "application_domain">>,
     <<"useLimitation", "use_limitation">>, <<"useHistory", "use_history">>,
     <<"keyword", "keywords">>, <<"reference", "references">>,
     <<"other", "other">>, <<"glyph", "glyph">>}

C27_ModelIdentificationObligations ==
    /\ (pc = "applied" /\ call.fn = "ModelIdentificationType_from"
           /\ ret.kind = "Ok")
       => \A i \in DOMAIN ObligatoryChildren :
             Present(arg, ObligatoryChildren[i])
    /\ (pc = "applied" /\ call.fn = "ModelIdentificationType_from"
           /\ arg \in ModelIdentificationNodes)
       => LET absent == {i \in DOMAIN ObligatoryChildren :
                            ~Present(arg, ObligatoryChildren[i])}
          IN  IF absent = {}
              THEN /\ ret.kind = "Ok"
                   /\ \A p \in FacultativeChildren :
                         ret.val[p[2]].some <=> Present(arg, p[1])
                   /\ Len(ret.val.poc) = CountNamed(arg, "poc")
              ELSE ret = Panicked([kind |-> "missing",
                                   path |-> <<"modelIdentification",
                                              ObligatoryChildren[Min(absent)]>>])

\* A model identification with the six obligatory children, without purpose
\* and without poc, has been converted
C27_Witness ==
    /\ pc = "applied"
    /\ call.fn = "ModelIdentificationType_from"
    /\ arg \in ModelIdentificationNodes
    /\ ~Present(arg, "purpose")
    /\ ~Present(arg, "poc")
    /\ Present(arg, "glyph")
    /\ ret.kind = "Ok"
    /\ ~ret.val.purpose.some
    /\ ret.val.poc = <<>>
    /\ ret.val.glyph.some

\* A model identification without description and without glyph failed
C27_WitnessNoDescription ==
    /\ pc = "applied"
    /\ call.fn = "ModelIdentificationType_from"
    /\ arg \in ModelIdentificationNodes
    /\ ~Present(arg, "description")
    /\ ~Present(arg, "glyph")
    /\ ret.kind = "panic"

(***************************************************************************)
(* C28: sharing mode, update type, ownership-transfer type, glyph format   *)
(* and resign action are closed vocabularies: whatever the input, a token  *)
(* outside the table of the vocabulary aborts the conversion, and no       *)
(* result is a fallback variant.                                           *)
(***************************************************************************)
FixedClosedTables == [
    SharingType_from |-> VocabularyTokens["SharingType_from"],
    UpdateType_from |-> VocabularyTokens["UpdateType_from"],
    OwnershipType_from |-> VocabularyTokens["OwnershipType_from"],
    GlyphTypeType_from |-> {<<"B", "I", "T", "M", "A", "P">>, <<"J", "P", "G">>, <<"G", "I", "F">>, <<"P", "N", "G">>, <<"T", "I", "F", "F">>},
    ResignSwitchType_from |-> ResignActions]

C28_FixedClosedVocabularies ==
    (pc = "applied" /\ call.fn \in DOMAIN FixedClosedTables)
    => /\ CalledToken \notin FixedClosedTables[call.fn]
          => /\ ret.kind = "panic"
             /\ ret.msg.kind = "unknown"
             /\ ret.msg.text = CalledToken
       /\ CalledToken \in FixedClosedTables[call.fn]
          => /\ ret.kind = "Ok"
             /\ DOMAIN ret.val = {"variant"}
             /\ ret.val.variant # "Other"

(***************************************************************************)
(* C29: the value of an attribute is used as written, without the trimming *)
(* of element text: a switch flag, a resign action, a glyph type, height   *)
(* or width, an isCallback or isUsed of serviceUtilization written with    *)
(* leading or trailing whitespace aborts the conversion, while a token     *)
(* written with surrounding whitespace in the text of an element converts. *)
(***************************************************************************)
Padded(s) == Stripped(s) # s

\* The converters of element text that have a table, and the tokens they know
ElementVocabularies ==
    {"ModelType_from", "SharingType_from", "UpdateType_from", "OwnershipType_from",
     "OrderType_from", "CapabilityType_from", "ReliableType_from", "EndianType_from"}

C29_AttributesVerbatim ==
    /\ (pc = "applied" /\ call.fn = "get_text_of_attribute"
           /\ call.name \in DOMAIN arg.attributes)
       => ret = ReturnedOk(Some(arg.attributes[call.name]))
    /\ (pc = "applied"
           /\ call.fn \in {"SwitchType_from", "ResignSwitchType_from",
                           "GlyphTypeType_from"}
           /\ Padded(arg.attributes[call.name]))
       => ret.kind = "panic"
    /\ (pc = "applied" /\ call.fn = "SwitchesType_from" /\ arg \in SwitchesNodes
           /\ \E a \in DOMAIN arg.attributes : Padded(arg.attributes[a]))
       => ret.kind = "panic"
    /\ (pc = "applied" /\ call.fn = "GlyphType_from"
           /\ arg \in SizedGlyphNodes \cup GlyphNodes
           /\ \E a \in {"type", "height", "width"} : Padded(arg.attributes[a]))
       => ret.kind = "panic"
    /\ (pc = "applied" /\ call.fn = "ServiceInfoType_from" /\ arg \in ServiceInfoNodes)
       => IF Padded(arg.attributes["isCallback"]) \/ Padded(arg.attributes["isUsed"])
          THEN ret.kind = "panic"
          ELSE /\ ret.kind = "Ok"
               /\ ret.val.section = arg.attributes["section"]
    /\ (pc = "applied" /\ call.fn \in ElementVocabularies
           /\ TokenOf(arg) \in VocabularyTokens[call.fn])
       => ret.kind = "Ok"
    /\ (pc = "applied" /\ call.fn = "SizeType_from" /\ DecimalIn(TokenOf(arg), 0, 255))
       => ret.kind = "Ok"

\* The switches whose service_reporting is " true", every other attribute
\* being valid, failed on that attribute
C29_Witness ==
    /\ pc = "applied"
    /\ call.fn = "SwitchesType_from"
    /\ arg \in SwitchesNodes
    /\ DOMAIN arg.attributes = SwitchAttributes
    /\ arg.attributes["service_reporting"] = <<" ", "t", "r", "u", "e">>
    /\ ret = Panicked([kind |-> "unwrap", text |-> <<" ", "t", "r", "u", "e">>])

\* The same as text of an element: a padded size and a padded sharing mode
\* converted, a glyph of height " 32" failed
C29_WitnessPaddedElement ==
    /\ pc = "applied"
    /\ call.fn = "SizeType_from"
    /\ Padded(RawText(arg))
    /\ ret = ReturnedOk([size |-> 8])

C29_WitnessPaddedSharing ==
    /\ pc = "applied"
    /\ call.fn = "SharingType_from"
    /\ Padded(RawText(arg))
    /\ ret = ReturnedOk(Variant("Publish"))

C29_WitnessPaddedHeight ==
    /\ pc = "applied"
    /\ call.fn = "GlyphType_from"
    /\ arg \in SizedGlyphNodes
    /\ arg.attributes["height"] = <<" ", "3", "2">>
    /\ ret = Panicked([kind |-> "unwrap", text |-> <<" ", "3", "2">>])

C29_WitnessPaddedResign ==
    /\ pc = "applied"
    /\ call.fn = "ResignSwitchType_from"
    /\ arg.attributes["automatic_resign_action"] = <<" ", "N", "o", "A", "c", "t", "i", "o", "n">>
    /\ ret.kind = "panic"

(***************************************************************************)
(* C30: on every class tree, whatever its depth, the conversion comes to   *)
(* an end, with the complete class or with a failure; a call converts each *)
(* child class once, in document order, and every call below another is on *)
(* a child element of the element of the call above.                       *)
(***************************************************************************)
\* The number of levels of classes in e
RECURSIVE Levels(_, _)
Levels(e, n) ==
    1 + (IF CountNamed(e, n) = 0 THEN 0
         ELSE Max({Levels(NthNamed(e, n, k), n) : k \in 1..CountNamed(e, n)}))

\* Every call is on the child class its caller is at
DescendsIntoChildren ==
    pc = "walking"
    => /\ Len(call) <= Levels(arg, nested_name(call[1].fn))
       /\ call[1].e = arg
       /\ \A i \in 2..Len(call) :
             /\ call[i].fn = call[i - 1].fn
             /\ call[i - 1].k \in 1..CountNamed(call[i - 1].e, nested_name(call[i].fn))
             /\ call[i].e = NthNamed(call[i - 1].e, nested_name(call[i].fn),
                                     call[i - 1].k)
       /\ \A i \in 1..Len(call) : Len(call[i].vals) = Max({call[i].k - 1, 0})

\* The end is what T::from gives: the complete class, or the first failure
EndsWithModelOrFailure ==
    pc = "applied"
    => LET outcome == T_from(call[1].fn, arg)
       IN  ret = IF outcome.ok THEN ReturnedOk(outcome.val)
                 ELSE Panicked(outcome.msg)

\* A call never goes back to a child class: its position only grows, by one
\* on each return of a child
OncePerChild ==
    \/ pc' # "walking"
    \/ pc # "walking"
    \/ /\ \A i \in 1..Min({Len(call), Len(call')}) : call'[i].k >= call[i].k
       /\ Len(call') < Len(call)
          => call'[Len(call')].k = call[Len(call')].k + 1
       /\ Len(call') > Len(call)
          => (Len(call') = Len(call) + 1 /\ call'[Len(call')].k = 0)

C30_TerminatesDescending ==
    /\ <>(pc = "applied")
    /\ [](DescendsIntoChildren /\ EndsWithModelOrFailure)
    /\ [][OncePerChild]_vars

\* A tree of three levels has been converted to three levels of classes
C30_Witness ==
    /\ pc = "applied"
    /\ Levels(arg, nested_name(call[1].fn)) = 3
    /\ ret.kind = "Ok"
    /\ ret.val[nested_field(call[1].fn)].some
    /\ ret.val[nested_field(call[1].fn)].v[1][nested_field(call[1].fn)].some

\* A nameless class at the third level made the conversion fail
C30_WitnessFailure ==
    /\ pc = "applied"
    /\ Levels(arg, nested_name(call[1].fn)) = 3
    /\ ret.kind = "panic"

=============================================================================
